---- MODULE Spec2Model ----
(***************************************************************************)
(* A model of video-compress: the checkpoint store (resume state), the      *)
(* ffmpeg process runner's progress accounting, and a run of the program    *)
(* from ScanJobs through Process (internal/compressor, cmd/video-compress). *)
(*                                                                          *)
(* A path is a record [dir, name, ext] (filepath.Dir, the base name without *)
(* its extension, filepath.Ext).  A file's modification time is a record    *)
(* [sec, nsec]; Unix() keeps the whole seconds only.  CompletedAt, which    *)
(* the program writes and never reads, is left out of a ResumeEntry.        *)
(***************************************************************************)
EXTENDS Integers, Sequences, FiniteSets, TLC

(* ---------------------------------------------------------------- bounds *)
MaxSize == 2
MaxSec == 1
NumProcs == 2
MaxUs == 2
MaxLines == 2
NumJobs == 2
MaxDur == 2
MaxSegSeconds == 2
MaxRuns == 2
MaxTileDur == 6
MaxTileSeconds == 3
TicksPerSec == 2

(* ------------------------------------------------------------- variables *)
VARIABLES
  state,      \* the in-memory ResumeState.Completed
  \* SpecFresh
  inStat,     \* input path -> NoFile or its FileInfo
  outPresent, \* the output paths that exist on disk
  query,      \* the last call made and what it returned
  \* SpecCkpt
  ckFs,       \* the checkpoint path and its ".tmp" sibling -> file content
  savePc,     \* where saveResumeState stands
  loaded,     \* what the last loadResumeState returned
  crashed,    \* the process was killed
  \* SpecRun
  bar,        \* globalBar: the shared count of processed microseconds
  lastTimeUs, \* each ffmpeg.Run's lastTimeUs
  runPc,      \* where each ffmpeg.Run stands
  stdout,     \* what each ffmpeg process has written to its stdout so far
  \* Spec (with state, inStat, ckFs and crashed)
  workers,    \* cfg.Workers
  prior,      \* what earlier runs left on disk for the scanned inputs
  ctxDone,    \* ctx is cancelled
  mainPc,     \* where Process's own goroutine stands
  next,       \* the index of the job the for loop is at
  sem,        \* the number of slots of sem that are taken
  wg,         \* the WaitGroup's counter
  wpc,        \* where each job's worker goroutine stands
  snap,       \* each worker's origSize and origModUnix
  err,        \* each worker's err, as ffmpeg.Run returned it
  item,       \* each worker's ReportItem
  saveErr,    \* each worker's saveErr
  tmpFile,    \* the content of each job's TempFile
  outFile,    \* the content of each job's OutputFile
  stateMu,    \* the holder of stateMu: a job, or 0
  mu,         \* the holder of mu, the mutex of results: a job, or 0
  results,    \* the results slice
  scan2,      \* what the next run's ScanJobs makes of each input
  isDir,      \* cfg.InputPath is a directory
  disableSeg, \* cfg.DisableSegResume
  scan1,      \* what this run's ScanJobs makes of each input
  jobs,       \* the jobs slice ScanJobs returns: the inputs it selected
  saveData,   \* each worker's data, as saveResumeState marshalled it
  exitKind,   \* how each job's ffmpeg process ended
  \* Spec, the segment path of Process
  segSeconds, \* cfg.SegmentSeconds
  durationSec,\* Job.DurationSec, as ffprobe reported it to ScanJobs
  wsMeta,     \* the content of <workDir>/resume_meta.json
  wsSeg,      \* segment index -> the content of <workDir>/seg_<index>.mp4
  wsTmp,      \* the indexes whose seg_<index>.mp4.vcpart exists
  wsList,     \* the content of <workDir>/concat_list.txt
  mergeTmp,   \* the content of <OutputFile>.merge.vcpart
  segPlan,    \* segmentSeconds and totalSegments of the segment path
  segIdx,     \* idx of the segment loop
  segLast,    \* lastTimeUs of the ffmpeg.Run of the current segment
  segLines,   \* the number of lines the segments' processes have written
  metaFound,  \* what cleanupSegmentWorkspaceIfChanged found in the workspace
  segStarted, \* the indexes an encode process was started for, in order
  segSkipped, \* the segments skipped, in order, with the time credited
  madeBy,     \* segment index -> the plan of the earlier run that encoded it
  runNo,      \* the number of this run of the program
  \* SpecPaths
  outDir      \* cfg.OutputPath

freshVars == <<inStat, outPresent, query>>
ckptVars == <<ckFs, savePc, loaded, crashed>>
runVars == <<bar, lastTimeUs, runPc, stdout>>
segVars == <<segSeconds, durationSec, wsMeta, wsSeg, wsTmp, wsList, mergeTmp,
             segPlan, segIdx, segLast, segLines, metaFound, segStarted,
             segSkipped, madeBy, runNo>>
procVars == <<workers, prior, ctxDone, mainPc, next, sem, wg, wpc, snap, err,
              item, saveErr, tmpFile, outFile, stateMu, mu, results, scan2,
              isDir, disableSeg, scan1, jobs, saveData, exitKind, segVars,
              outDir>>
vars == <<state, freshVars, ckptVars, runVars, procVars>>

\* The scheduler's variables at rest, for the specifications that leave
\* them alone.
ProcIdle ==
  /\ workers = 0 /\ prior = "clean" /\ ctxDone = FALSE
  /\ mainPc = "returned" /\ next = 1 /\ sem = 0 /\ wg = 0
  /\ wpc = << >> /\ snap = << >> /\ err = << >> /\ item = << >>
  /\ saveErr = << >> /\ tmpFile = << >> /\ outFile = << >>
  /\ stateMu = 0 /\ mu = 0 /\ results = << >> /\ scan2 = << >>
  /\ isDir = FALSE /\ disableSeg = FALSE /\ scan1 = << >> /\ jobs = << >>
  /\ saveData = << >> /\ exitKind = << >>
  /\ segSeconds = 0 /\ durationSec = 0 /\ wsMeta = << >> /\ wsSeg = << >>
  /\ wsTmp = {} /\ wsList = << >> /\ mergeTmp = "none" /\ segPlan = << >>
  /\ segIdx = 0 /\ segLast = 0 /\ segLines = 0
  /\ metaFound = "unread"
  /\ segStarted = << >> /\ segSkipped = << >> /\ madeBy = << >>
  /\ runNo = 1

(* ----------------------------------------------------------------- paths *)
Path(d, n, e) == [dir |-> d, name |-> n, ext |-> e]

\* ScanJobs.getOutputPath: <targetDir>/<name>.compressed<ext>, the target
\* directory being cfg.OutputPath when it is set and the input's own otherwise.
getOutputPath(outputPath, input) ==
  Path(IF outputPath # "" THEN outputPath ELSE input.dir,
       input.name \o ".compressed", input.ext)

\* Job.TempFile: outputFile + ".vcpart"
TempFileOf(outputFile) ==
  Path(outputFile.dir, outputFile.name, outputFile.ext \o ".vcpart")

(* ----------------------------------------------------------- file system *)
NoFile == [exists |-> FALSE]
Sizes == 1..MaxSize
ModTimes == [sec : 0..MaxSec, nsec : {0, 1}]
FileInfo(sz, mt) == [exists |-> TRUE, size |-> sz, mtime |-> mt]
FileInfos == {FileInfo(sz, mt) : sz \in Sizes, mt \in ModTimes}

\* time.Time.Unix(): the seconds since the epoch, the fraction dropped.
Unix(mt) == mt.sec

(* ------------------------------------------------------ checkpoint store *)
ResumeEntry(inputFile, outputFile, inputSize, inputModUnix) ==
  [InputFile |-> inputFile, OutputFile |-> outputFile,
   InputSize |-> inputSize, InputModUnix |-> inputModUnix]

\* ResumeState{Completed: map[string]ResumeEntry{}}
EmptyState == [k \in {} |-> k]

\* A buggy variant: the size and the modification time are stored in each
\* other's field.
markCompletedSwapped(st, inputFile, outputFile, inputSize, inputModUnix) ==
  [k \in DOMAIN st \cup {inputFile} |->
     IF k = inputFile
       THEN ResumeEntry(inputFile, outputFile, inputModUnix, inputSize)
       ELSE st[k]]

\* A buggy variant: the record is not put into the map.
markCompletedForgets(st, inputFile, outputFile, inputSize, inputModUnix) ==
  st

markCompleted(st, inputFile, outputFile, inputSize, inputModUnix) ==
  [k \in DOMAIN st \cup {inputFile} |->
     IF k = inputFile
       THEN ResumeEntry(inputFile, outputFile, inputSize, inputModUnix)
       ELSE st[k]]

\* A buggy variant: the output file's existence is not checked.
isCompletedAndUnchangedNoOutput(st, inputFile, outputFile, stat, present) ==
  /\ inputFile \in DOMAIN st
  /\ st[inputFile].OutputFile = outputFile
  /\ stat[inputFile].exists
  /\ stat[inputFile].size = st[inputFile].InputSize
  /\ Unix(stat[inputFile].mtime) = st[inputFile].InputModUnix

\* A buggy variant: only the size is compared, the modification time is not.
isCompletedAndUnchangedSizeOnly(st, inputFile, outputFile, stat, present) ==
  /\ inputFile \in DOMAIN st
  /\ st[inputFile].OutputFile = outputFile
  /\ stat[inputFile].exists
  /\ stat[inputFile].size = st[inputFile].InputSize
  /\ outputFile \in present

\* stat: what os.Stat gives for each input path; present: the output paths
\* that exist.  The conjuncts are the function's early returns, in order.
isCompletedAndUnchanged(st, inputFile, outputFile, stat, present) ==
  /\ inputFile \in DOMAIN st
  /\ st[inputFile].OutputFile = outputFile
  /\ stat[inputFile].exists
  /\ ~ (\/ stat[inputFile].size # st[inputFile].InputSize
        \/ Unix(stat[inputFile].mtime) # st[inputFile].InputModUnix)
  /\ outputFile \in present

(* ======================================================================= *)
(* SpecFresh: markCompleted and isCompletedAndUnchanged against a file     *)
(* system whose input file is rewritten and whose outputs come and go.     *)
(* ======================================================================= *)

InA == Path("v", "a", ".mp4")
InB == Path("v", "b", ".mp4")
FreshInputs == {InA, InB}
\* the output beside the input, and the one under an output directory "out"
FreshOutputs == {getOutputPath("", InA), getOutputPath("out", InA)}

NoQuery == [kind |-> "none"]

\* The variables SpecFresh leaves alone, and the value they rest at.
freshOthers == <<ckptVars, runVars, procVars>>
FreshOthersInit ==
  /\ ProcIdle
  /\ outDir = ""
  /\ bar = 0
  /\ lastTimeUs = << >>
  /\ runPc = << >>
  /\ stdout = << >>
  /\ ckFs = [f \in {"path", "tmp"} |-> [kind |-> "missing"]]
  /\ savePc = "idle"
  /\ loaded = [kind |-> "none"]
  /\ crashed = FALSE

FreshInit ==
  /\ FreshOthersInit
  /\ state = EmptyState
  /\ inStat = [p \in FreshInputs |-> FileInfo(1, [sec |-> 0, nsec |-> 0])]
  /\ outPresent = {}
  /\ query = NoQuery

\* markCompleted with the input's current size and ModTime().Unix(), as the
\* tests and Process (which stats the input first) call it.
FreshMark(inputFile, outputFile) ==
  /\ inStat[inputFile].exists
  /\ state' = markCompleted(state, inputFile, outputFile,
                            inStat[inputFile].size,
                            Unix(inStat[inputFile].mtime))
  /\ query' = [kind |-> "mark", input |-> inputFile]
  /\ UNCHANGED <<inStat, outPresent, freshOthers>>

\* The environment rewrites, touches or removes input file InA.
FreshWriteInput(info) ==
  /\ inStat[InA] # info
  /\ inStat' = [inStat EXCEPT ![InA] = info]
  /\ query' = [kind |-> "write", input |-> InA, before |-> inStat[InA]]
  /\ UNCHANGED <<state, outPresent, freshOthers>>

FreshToggleOutput(outputFile) ==
  /\ outPresent' = IF outputFile \in outPresent
                     THEN outPresent \ {outputFile}
                     ELSE outPresent \cup {outputFile}
  /\ query' = NoQuery
  /\ UNCHANGED <<state, inStat, freshOthers>>

FreshCheck(inputFile, outputFile) ==
  /\ query' = [kind |-> "check", input |-> inputFile, output |-> outputFile,
               res |-> isCompletedAndUnchanged(state, inputFile, outputFile,
                                               inStat, outPresent)]
  /\ UNCHANGED <<state, inStat, outPresent, freshOthers>>

FreshNext ==
  \/ \E i \in FreshInputs, o \in FreshOutputs : FreshMark(i, o)
  \/ \E info \in FileInfos \cup {NoFile} : FreshWriteInput(info)
  \/ \E o \in FreshOutputs : FreshToggleOutput(o)
  \/ \E i \in FreshInputs, o \in FreshOutputs : FreshCheck(i, o)

SpecFresh == FreshInit /\ [][FreshNext]_vars

(* ----------------------------------------------------- claims, SpecFresh *)
\* The four conditions of freshness, stated on the store and the disk.
HasRecord(i) == i \in DOMAIN state
RecordedOutputIs(i, o) == state[i].OutputFile = o
FingerprintMatches(i) ==
  /\ inStat[i].exists
  /\ <<inStat[i].size, Unix(inStat[i].mtime)>>
       = <<state[i].InputSize, state[i].InputModUnix>>
OutputExists(o) == o \in outPresent

C6_ResultIffFourConditions ==
  query.kind = "check" =>
    (query.res <=> /\ HasRecord(query.input)
                   /\ RecordedOutputIs(query.input, query.output)
                   /\ FingerprintMatches(query.input)
                   /\ OutputExists(query.output))

\* C6: isCompletedAndUnchanged(state, input, output) is true if and only if
\* the store has a record keyed by input, the record's output path is output,
\* the input's current size and modification time (in Unix seconds, as the
\* record keeps it) equal the recorded fingerprint, and the output file
\* exists; and a call leaves the store as it was.
C6_IsFreshIff ==
  /\ []C6_ResultIffFourConditions
  /\ [][query'.kind = "check" => state' = state]_vars

\* A check that answered false only because the output file is missing.
C6_Witness ==
  /\ query.kind = "check"
  /\ ~ query.res
  /\ HasRecord(query.input)
  /\ RecordedOutputIs(query.input, query.output)
  /\ FingerprintMatches(query.input)
  /\ ~ OutputExists(query.output)

Fresh(i, o) == isCompletedAndUnchanged(state, i, o, inStat, outPresent)

\* The input was just rewritten, and before that it matched its record.
MutatedAfterCompletion ==
  /\ query.kind = "write"
  /\ HasRecord(query.input)
  /\ query.before.exists
  /\ <<query.before.size, Unix(query.before.mtime)>>
       = <<state[query.input].InputSize, state[query.input].InputModUnix>>

\* C7 as stated: after a completion was recorded, any mutation of the
\* input's size or of its modification time makes the freshness test false.
C7_AnyMutationUnfresh ==
  MutatedAfterCompletion => \A o \in FreshOutputs : ~ Fresh(query.input, o)

\* C7 as amended: once a completion is recorded for an input, the freshness test is
\* false for it whenever the input's size differs from the recorded size or
\* its modification time falls in another whole second than the recorded one
\* (or the input is gone).
C7_FingerprintSensitivity ==
  \A i \in FreshInputs :
    (HasRecord(i) /\ ~ FingerprintMatches(i)) =>
      \A o \in FreshOutputs : ~ Fresh(i, o)

\* A rewrite of a checkpointed input that changed its fingerprint, in a state
\* where the record's output still exists: only the fingerprint decides.
C7_Witness ==
  /\ MutatedAfterCompletion
  /\ inStat[query.input].exists
  /\ ~ FingerprintMatches(query.input)
  /\ OutputExists(state[query.input].OutputFile)

(* ======================================================================= *)
(* SpecCkpt: saveResumeState, step by step and killed at any step, and     *)
(* loadResumeState, on a checkpoint file of any content.                   *)
(* ======================================================================= *)

(* A file's content: missing; blank (empty, or white space only); a        *)
(* complete JSON document; a proper, non-blank prefix of one (what a       *)
(* write cut short leaves); or bytes that are no JSON at all.              *)
Missing == [kind |-> "missing"]
Blank == [kind |-> "blank"]
Garbage == [kind |-> "garbage"]
Json(doc) == [kind |-> "json", doc |-> doc]
Truncated(doc) == [kind |-> "truncated", doc |-> doc]

\* Two file names that differ only in being valid UTF-8: a name holding the
\* byte 0xFF, and the same name with U+FFFD in its place.
BadName == "a<FF>"
ReplName == "a<U+FFFD>"

\* encoding/json writes a string coerced to valid UTF-8: each invalid byte
\* becomes the replacement rune U+FFFD.
CoerceUTF8(str) ==
  CASE str = BadName -> ReplName
    [] str = BadName \o ".compressed" -> ReplName \o ".compressed"
    [] OTHER -> str
CoercePath(p) == Path(CoerceUTF8(p.dir), CoerceUTF8(p.name), CoerceUTF8(p.ext))
ValidUTF8Path(p) == CoercePath(p) = p

CkA == Path("v", "a", ".mp4")
CkRepl == Path("v", ReplName, ".mp4")
CkBad == Path("v", BadName, ".mp4")
CkPaths == {CkA, CkRepl, CkBad}

\* encoding/json writes a map's keys sorted as byte strings: "a.mp4" <
\* "a<U+FFFD>.mp4" (EF BF BD) < "a\xFF.mp4" < "b.mp4" < ...
PathOrder ==
  <<CkA, CkRepl, CkBad,
    Path("v", "b", ".mp4"), Path("v", "c", ".mp4"), Path("v", "d", ".mp4")>>

\* The members of the "completed" object, for the keys PathOrder[from..].
RECURSIVE MarshalMembers(_, _)
MarshalMembers(st, from) ==
  IF from > Len(PathOrder) THEN << >>
  ELSE LET k == PathOrder[from]
           rest == MarshalMembers(st, from + 1)
       IN IF k \in DOMAIN st
            THEN << <<CoercePath(k),
                      [input_file |-> CoercePath(st[k].InputFile),
                       output_file |-> CoercePath(st[k].OutputFile),
                       input_size |-> st[k].InputSize,
                       input_mod_unix |-> st[k].InputModUnix]>> >> \o rest
            ELSE rest

\* A buggy variant: the fingerprint's modification time is not written.
MarshalNoModUnix(st) ==
  [t |-> "object", completed |-> "map",
   members |-> [n \in 1..Len(MarshalMembers(st, 1)) |->
      <<MarshalMembers(st, 1)[n][1],
        [MarshalMembers(st, 1)[n][2] EXCEPT !.input_mod_unix = 0]>>]]

\* json.MarshalIndent(state, "", "  "): {"completed": {<key>: {...}, ...}}
Marshal(st) ==
  [t |-> "object", completed |-> "map", members |-> MarshalMembers(st, 1)]

\* An object's members read into a Go map: a repeated key keeps the last.
RECURSIVE UnmarshalMembers(_, _)
UnmarshalMembers(members, upto) ==
  IF upto = 0 THEN EmptyState
  ELSE LET m == members[upto]
           before == UnmarshalMembers(members, upto - 1)
       IN [k \in DOMAIN before \cup {m[1]} |->
             IF k = m[1]
               THEN ResumeEntry(m[2].input_file, m[2].output_file,
                                m[2].input_size, m[2].input_mod_unix)
               ELSE before[k]]

LoadOk(st) == [kind |-> "result", err |-> FALSE, state |-> st]
LoadErr == [kind |-> "result", err |-> TRUE]

\* A buggy variant: a file that cannot be parsed is taken for an empty store.
loadResumeStateLenient(content) ==
  IF content.kind = "json" /\ content.doc.t = "object"
       /\ content.doc.completed = "map"
    THEN LoadOk(UnmarshalMembers(content.doc.members,
                                 Len(content.doc.members)))
    ELSE LoadOk(EmptyState)

\* loadResumeState on a file of this content.  A JSON null, an object with
\* no "completed" member or a null one leave the map empty; a document of
\* another type is an error of json.Unmarshal.
loadResumeState(content) ==
  CASE content.kind = "missing" -> LoadOk(EmptyState)
    [] content.kind = "blank" -> LoadOk(EmptyState)
    [] content.kind \in {"truncated", "garbage"} -> LoadErr
    [] content.kind = "json" ->
         CASE content.doc.t = "null" -> LoadOk(EmptyState)
           [] content.doc.t = "array" -> LoadErr
           [] content.doc.t = "object" ->
                IF content.doc.completed \in {"absent", "null"}
                  THEN LoadOk(EmptyState)
                  ELSE LoadOk(UnmarshalMembers(content.doc.members,
                                               Len(content.doc.members)))

\* A buggy variant: the new content is written over the checkpoint itself.
saveTmpNameInPlace == "path"

\* tmp := path + ".tmp"
saveTmpName == "tmp"

\* Every store over CkPaths whose records name the output beside the input.
CkEntries(k) ==
  {ResumeEntry(k, getOutputPath("", k), sz, mod) :
     sz \in Sizes, mod \in 0..MaxSec}
CkStores ==
  UNION {{st \in [keys -> UNION {CkEntries(k) : k \in keys}] :
            \A k \in keys : st[k] \in CkEntries(k)} : keys \in SUBSET CkPaths}

\* What an earlier run left at the checkpoint path.
PrevStore == markCompleted(EmptyState, CkA, getOutputPath("out", CkA), 1, 0)
CkInitialContents ==
  {Missing, Blank, Garbage,
   Json([t |-> "null"]), Json([t |-> "array"]),
   Json([t |-> "object", completed |-> "absent"]),
   Json([t |-> "object", completed |-> "null"]),
   Json(Marshal(PrevStore)), Truncated(Marshal(PrevStore))}

NotLoaded == [kind |-> "none"]

ckptOthers == <<freshVars, runVars, procVars>>
CkOthersInit ==
  /\ ProcIdle
  /\ outDir = ""
  /\ bar = 0
  /\ lastTimeUs = << >>
  /\ runPc = << >>
  /\ stdout = << >>
  /\ inStat = [p \in FreshInputs |-> NoFile]
  /\ outPresent = {}
  /\ query = NoQuery

CkInit ==
  /\ CkOthersInit
  /\ state \in CkStores
  /\ \E c \in CkInitialContents : ckFs = [f \in {"path", "tmp"} |->
                                            IF f = "path" THEN c ELSE Missing]
  /\ savePc = "idle"
  /\ loaded = NotLoaded
  /\ crashed = FALSE

\* os.MkdirAll and json.MarshalIndent; MkdirAll may fail.
CkSaveBegin(ok) ==
  /\ ~ crashed
  /\ savePc \in {"idle", "done", "failed"}
  /\ savePc' = IF ok THEN "open" ELSE "failed"
  /\ loaded' = NotLoaded
  /\ UNCHANGED <<state, ckFs, crashed, ckptOthers>>

\* os.WriteFile opens its target with O_CREATE|O_TRUNC ...
CkWriteOpen(ok) ==
  /\ ~ crashed
  /\ savePc = "open"
  /\ IF ok
       THEN /\ ckFs' = [ckFs EXCEPT ![saveTmpName] = Blank]
            /\ savePc' = "write"
       ELSE /\ savePc' = "failed"
            /\ UNCHANGED ckFs
  /\ UNCHANGED <<state, loaded, crashed, ckptOthers>>

\* ... writes the data, of which a part may reach the file first ...
CkWritePart ==
  /\ ~ crashed
  /\ savePc = "write"
  /\ ckFs[saveTmpName] = Blank
  /\ ckFs' = [ckFs EXCEPT ![saveTmpName] = Truncated(Marshal(state))]
  /\ UNCHANGED <<state, savePc, loaded, crashed, ckptOthers>>

\* ... and returns once all of it is written, or with an error (disk full).
CkWriteEnd(ok) ==
  /\ ~ crashed
  /\ savePc = "write"
  /\ IF ok
       THEN /\ ckFs' = [ckFs EXCEPT ![saveTmpName] = Json(Marshal(state))]
            /\ savePc' = "rename"
       ELSE /\ savePc' = "failed"
            /\ UNCHANGED ckFs
  /\ UNCHANGED <<state, loaded, crashed, ckptOthers>>

\* os.Rename(tmp, path): the path takes the temporary file's content in one
\* step, or the rename fails and changes nothing.
CkRename(ok) ==
  /\ ~ crashed
  /\ savePc = "rename"
  /\ IF ok
       THEN /\ ckFs' = [f \in {"path", "tmp"} |->
                          IF f = "path" THEN ckFs[saveTmpName]
                          ELSE IF f = saveTmpName THEN Missing ELSE ckFs[f]]
            /\ savePc' = "done"
       ELSE /\ savePc' = "failed"
            /\ UNCHANGED ckFs
  /\ UNCHANGED <<state, loaded, crashed, ckptOthers>>

\* The process is killed in the middle of a save.
CkCrash ==
  /\ ~ crashed
  /\ savePc \in {"open", "write", "rename"}
  /\ crashed' = TRUE
  /\ UNCHANGED <<state, ckFs, savePc, loaded, ckptOthers>>

\* loadResumeState(path), by this run between two saves or by the next run.
CkLoad ==
  /\ crashed \/ savePc \in {"idle", "done", "failed"}
  /\ loaded' = [kind |-> "call", content |-> ckFs["path"],
                after |-> IF crashed THEN "crash" ELSE savePc,
                res |-> loadResumeState(ckFs["path"])]
  /\ UNCHANGED <<state, ckFs, savePc, crashed, ckptOthers>>

CkNext ==
  \/ \E ok \in BOOLEAN : CkSaveBegin(ok)
  \/ \E ok \in BOOLEAN : CkWriteOpen(ok)
  \/ CkWritePart
  \/ \E ok \in BOOLEAN : CkWriteEnd(ok)
  \/ \E ok \in BOOLEAN : CkRename(ok)
  \/ CkCrash
  \/ CkLoad

SpecCkpt == CkInit /\ [][CkNext]_vars

(* ------------------------------------------------------ claims, SpecCkpt *)
\* C8: every step of saveResumeState, a kill at any step included, leaves
\* the checkpoint path's content as it was or replaces it, whole, by the
\* complete serialisation of the store being saved: the path never holds a
\* partial file.
C8_CrashSafeSave ==
  [][\/ ckFs'["path"] = ckFs["path"]
     \/ ckFs'["path"] = Json(Marshal(state))]_vars

\* Killed while the temporary file was half written: the checkpoint path
\* still holds the earlier run's complete store, which is not the new one.
C8_Witness ==
  /\ crashed
  /\ ckFs["tmp"] = Truncated(Marshal(state))
  /\ ckFs["path"] = Json(Marshal(PrevStore))
  /\ state # PrevStore

\* Not a JSON document: nothing but white space, a document cut short, or
\* other bytes.
Malformed(content) == content.kind \in {"blank", "truncated", "garbage"}

IsEmptyStoreNoError(res) == ~ res.err /\ res.state = EmptyState
IsErrorNoStore(res) == res.err /\ "state" \notin DOMAIN res

\* C9 as stated: a missing file gives an empty store and no error; any
\* malformed file gives an error and no store.
C9_MalformedIsError ==
  loaded.kind = "call" =>
    /\ loaded.content.kind = "missing" => IsEmptyStoreNoError(loaded.res)
    /\ Malformed(loaded.content) => IsErrorNoStore(loaded.res)

\* C9 as amended: a missing file, and a file that is empty or holds only
\* white space, give an empty store and no error; a file that is malformed
\* and not blank gives an error and no store.
C9_LoadMissingBlankMalformed ==
  loaded.kind = "call" =>
    /\ loaded.content.kind = "missing" => IsEmptyStoreNoError(loaded.res)
    /\ loaded.content.kind = "blank" => IsEmptyStoreNoError(loaded.res)
    /\ (Malformed(loaded.content) /\ loaded.content.kind # "blank")
         => IsErrorNoStore(loaded.res)

\* The next run loads a checkpoint that an earlier write cut short.
C9_Witness ==
  /\ loaded.kind = "call"
  /\ loaded.content.kind = "truncated"
  /\ loaded.res.err

SameRecords(st1, st2) ==
  /\ DOMAIN st1 = DOMAIN st2
  /\ \A k \in DOMAIN st1 :
       /\ st1[k].OutputFile = st2[k].OutputFile
       /\ st1[k].InputSize = st2[k].InputSize
       /\ st1[k].InputModUnix = st2[k].InputModUnix

LoadedAfterSave == loaded.kind = "call" /\ loaded.after = "done"

\* C10 as stated: for any store, a load after a save gives the same records.
C10_RoundTripAnyStore ==
  LoadedAfterSave => ~ loaded.res.err /\ SameRecords(loaded.res.state, state)

\* C10 as amended: for any store whose paths are valid UTF-8, a load after
\* a save of the same path gives a store with exactly the same records.
C10_RoundTripValidUTF8 ==
  (/\ LoadedAfterSave
   /\ \A k \in DOMAIN state :
        ValidUTF8Path(k) /\ ValidUTF8Path(state[k].OutputFile))
    => ~ loaded.res.err /\ SameRecords(loaded.res.state, state)

\* A store of two records with different fingerprints, saved and loaded.
C10_Witness ==
  /\ LoadedAfterSave
  /\ DOMAIN state = {CkA, CkRepl}
  /\ state[CkA].InputSize # state[CkRepl].InputSize
  /\ state[CkA].InputModUnix # state[CkRepl].InputModUnix

(* ======================================================================= *)
(* SpecRun: NumProcs ffmpeg processes run at once, each by its own         *)
(* ffmpeg.Run, all adding to one progress bar.                             *)
(* ======================================================================= *)
Procs == 1..NumProcs

\* A stdout line: "out_time_us=<text>", or a line of another key.  A text
\* is a decimal integer, held as its value, something ParseInt rejects
\* (such as "N/A"), or a decimal number too large for an int64.
Decimal(v) == [syntax |-> "int", val |-> v]
NotANumber == [syntax |-> "bad", val |-> 0]
OutOfRange == [syntax |-> "range", val |-> 0]
UsTexts == {Decimal(v) : v \in -1..MaxUs} \cup {NotANumber, OutOfRange}

\* math.MaxInt64, which lies above every value a line holds here.
MaxInt64 == MaxUs + 1
OtherLine == [key |-> "other", text |-> NotANumber]
UsLine(text) == [key |-> "out_time_us", text |-> text]
Lines == {OtherLine} \cup {UsLine(t) : t \in UsTexts}

\* currentUs, _ := strconv.ParseInt(usStr, 10, 64): 0 on a syntax error,
\* the largest int64 on a range error; the error is dropped.
ParseInt(text) ==
  CASE text.syntax = "int" -> text.val
    [] text.syntax = "range" -> MaxInt64
    [] OTHER -> 0

\* A buggy variant: the cumulative value is added, not the step from the
\* last one.
RunStepAddsValue(last, line) ==
  IF line.key = "out_time_us" /\ ParseInt(line.text) > last
    THEN [delta |-> ParseInt(line.text), last |-> ParseInt(line.text)]
    ELSE [delta |-> 0, last |-> last]

\* A buggy variant: the step is added even when the value went back.
RunStepAnyDelta(last, line) ==
  IF line.key = "out_time_us"
    THEN [delta |-> ParseInt(line.text) - last, last |-> ParseInt(line.text)]
    ELSE [delta |-> 0, last |-> last]

\* The body of Run's scan loop on one line: what is added to the bar and
\* the new lastTimeUs.
RunStep(last, line) ==
  IF line.key = "out_time_us"
    THEN LET currentUs == ParseInt(line.text)
         IN IF currentUs > last
              THEN [delta |-> currentUs - last, last |-> currentUs]
              ELSE [delta |-> 0, last |-> last]
    ELSE [delta |-> 0, last |-> last]

\* What a process has written: the number of lines, the last line, the
\* last out_time_us value among them (0 when none), and whether its
\* out_time_us values so far are well-formed, not negative and never
\* decreasing.
NoOutput == [n |-> 0, line |-> OtherLine, final |-> 0, monotonic |-> TRUE]
Written(so, line) ==
  IF line.key # "out_time_us" THEN [so EXCEPT !.n = so.n + 1, !.line = line]
  ELSE IF line.text.syntax # "int"
    THEN [so EXCEPT !.n = so.n + 1, !.line = line, !.monotonic = FALSE]
    ELSE [n |-> so.n + 1, line |-> line, final |-> line.text.val,
          monotonic |-> so.monotonic /\ line.text.val >= so.final]

runOthers == <<state, freshVars, ckptVars, procVars>>
RunOthersInit ==
  /\ ProcIdle
  /\ outDir = ""
  /\ state = EmptyState
  /\ inStat = [p \in FreshInputs |-> NoFile]
  /\ outPresent = {}
  /\ query = NoQuery
  /\ ckFs = [f \in {"path", "tmp"} |-> Missing]
  /\ savePc = "idle"
  /\ loaded = NotLoaded
  /\ crashed = FALSE

RunInit ==
  /\ RunOthersInit
  /\ bar = 0
  /\ lastTimeUs = [p \in Procs |-> 0]
  /\ runPc = [p \in Procs |-> "scan"]
  /\ stdout = [p \in Procs |-> NoOutput]

\* scanner.Scan() hands Run the next line process p wrote.
RunLine(p, line) ==
  /\ runPc[p] = "scan"
  /\ stdout[p].n < MaxLines
  /\ bar' = bar + RunStep(lastTimeUs[p], line).delta
  /\ lastTimeUs' = [lastTimeUs EXCEPT ![p] = RunStep(lastTimeUs[p], line).last]
  /\ stdout' = [stdout EXCEPT ![p] = Written(stdout[p], line)]
  /\ UNCHANGED <<runPc, runOthers>>

\* The process exits (or is killed) and closes its stdout: scanner.Scan()
\* is false, cmd.Wait() returns and so does Run.
RunExit(p) ==
  /\ runPc[p] = "scan"
  /\ runPc' = [runPc EXCEPT ![p] = "returned"]
  /\ UNCHANGED <<bar, lastTimeUs, stdout, runOthers>>

RunNext ==
  \/ \E p \in Procs, line \in Lines : RunLine(p, line)
  \/ \E p \in Procs : RunExit(p)

SpecRun == RunInit /\ [][RunNext]_vars

(* ------------------------------------------------------- claims, SpecRun *)
RECURSIVE SumFinal(_)
SumFinal(n) == IF n = 0 THEN 0 ELSE stdout[n].final + SumFinal(n - 1)

AllReturned == \A p \in Procs : runPc[p] = "returned"

\* C3: progress conservation.  When every process has finished and each
\* reported a well-formed, never decreasing sequence of out_time_us values
\* (cumulative times, so none negative), the bar holds the sum of the
\* processes' final reported values, whatever the interleaving.
C3_ProgressConservation ==
  (AllReturned /\ \A p \in Procs : stdout[p].monotonic)
    => bar = SumFinal(NumProcs)

\* Every process reported twice, going forward, and all have finished.
C3_Witness ==
  /\ AllReturned
  /\ \A p \in Procs :
       /\ stdout[p].monotonic
       /\ stdout[p].n >= 2
       /\ stdout[p].final >= 2
  /\ bar = SumFinal(NumProcs)

\* The line process p wrote in this step counts: an out_time_us line with a
\* well-formed value (parsed without an error) above p's lastTimeUs.
WroteLine(p) == stdout'[p].n = stdout[p].n + 1
WellFormed(line) == line.key = "out_time_us" /\ line.text.syntax = "int"
Counts(p) ==
  WellFormed(stdout'[p].line) /\ stdout'[p].line.text.val > lastTimeUs[p]

\* C21 as claimed: a line of another key, an out_time_us line whose value
\* is not above the process's lastTimeUs and one whose value is malformed
\* leave the bar and lastTimeUs as they are; a well-formed value v above
\* lastTimeUs adds v - lastTimeUs and sets lastTimeUs to v.  A decimal
\* value that does not fit an int64 is parsed as the largest int64, and
\* that value is added.
C21_OnlyGreaterValuesCount ==
  [][\A p \in Procs : WroteLine(p) =>
       IF Counts(p)
         THEN /\ bar' = bar + stdout'[p].line.text.val - lastTimeUs[p]
              /\ lastTimeUs'[p] = stdout'[p].line.text.val
         ELSE /\ bar' = bar
              /\ lastTimeUs'[p] = lastTimeUs[p]]_vars

(* ======================================================================= *)
(* Spec: one run of the program.  ScanJobs selects the jobs; Process runs  *)
(* them on its batch path (each worker goroutine, the for loop that admits *)
(* them) or, for one job, on its segment path; the cancellation of ctx and *)
(* a kill of the whole program are steps of their own.  When Process has   *)
(* returned, the next run's ScanJobs looks at the same inputs.             *)
(* ======================================================================= *)
Jobs == 1..NumJobs
JobNames == <<"a", "b", "c", "d">>

\* cfg.OutputPath: no output directory, the outputs lie beside the inputs.
CfgOutputPath == ""

\* Job{InputFile: path, OutputFile: outputFile}, for the j-th file scanned:
\* a job is known by the number of its input.
JobInput(j) == Path("v", JobNames[j], ".mp4")
JobOutput(j) == getOutputPath(CfgOutputPath, JobInput(j))
JobInputs == {JobInput(j) : j \in Jobs}

\* The input files, which nothing changes during the run.
JobInfo == FileInfo(2, [sec |-> 1, nsec |-> 1])

(* What earlier runs left for every scanned input: nothing ("clean"); an   *)
(* output at its output path ("overwrite"); an output, a record of it      *)
(* whose fingerprint the input no longer has, and the temp file of a run   *)
(* that was killed ("stale"); a checkpoint file that is not JSON           *)
(* ("corrupt"); or the segment workspace of a run on one file that did not *)
(* finish ("segments").  Outputs without records are looked at in runs on *)
(* one file, and so is a segment workspace, with every segment length and  *)
(* duration; the other runs have one segment per job.                      *)
Priors == {"clean", "overwrite", "stale", "corrupt", "segments"}
PriorOut(pr) == IF pr \in {"overwrite", "stale"} THEN "old" ELSE "none"
PriorTmp(pr) == IF pr = "stale" THEN "stale" ELSE "none"
PriorState(pr) ==
  IF pr = "stale"
    THEN [k \in JobInputs |->
            ResumeEntry(k, getOutputPath(CfgOutputPath, k), 1, 0)]
    ELSE EmptyState
PriorCkFile(pr) ==
  CASE pr = "stale" -> Json(Marshal(PriorState(pr)))
    [] pr = "corrupt" -> Garbage
    [] OTHER -> Missing

\* strings.HasSuffix(strings.ToLower(nameWithoutExt), ".compressed")
IsCompressedName(name) ==
  \E n \in 1..Len(JobNames) : name = JobNames[n] \o ".compressed"

\* A buggy variant: the duration is not probed.
addFileNoProbe(st, path, stat, present, answer, probeOk) ==
  LET outputFile == getOutputPath(CfgOutputPath, path)
  IN IF IsCompressedName(path.name)
       THEN [status |-> "Ignored",
             reason |-> "Filename indicates already compressed"]
     ELSE IF isCompletedAndUnchanged(st, path, outputFile, stat, present)
       THEN [status |-> "Ignored",
             reason |-> "Resume checkpoint: already completed"]
     ELSE IF outputFile \in present /\ ~ answer
       THEN [status |-> "Ignored", reason |-> "user chose to skip"]
     ELSE [status |-> "Job", reason |-> ""]

\* ScanJobs.addFile: what becomes of one candidate path.  answer: the user
\* typed y or yes at the overwrite prompt; probeOk: GetVideoDuration
\* succeeded.
addFile(st, path, stat, present, answer, probeOk) ==
  LET outputFile == getOutputPath(CfgOutputPath, path)
  IN CASE IsCompressedName(path.name) ->
            [status |-> "Ignored",
             reason |-> "Filename indicates already compressed"]
       [] ~ IsCompressedName(path.name)
          /\ isCompletedAndUnchanged(st, path, outputFile, stat, present) ->
            [status |-> "Ignored",
             reason |-> "Resume checkpoint: already completed"]
       [] OTHER ->
            IF outputFile \in present /\ ~ answer
              THEN [status |-> "Ignored", reason |-> "user chose to skip"]
            ELSE IF ~ probeOk
              THEN [status |-> "Failed", reason |-> "Read info failed"]
            ELSE [status |-> "Job", reason |-> ""]

NoItem == [status |-> "", reason |-> ""]
NoSnap == [size |-> 0, modUnix |-> 0]

\* A buggy variant: a slot is handed out while all are taken.
SemHasRoomOneTooMany == sem <= workers

\* A buggy variant: the send on sem never proceeds.
SemHasRoomNever == FALSE

\* sem <- struct{}{} can proceed: the channel of capacity cfg.Workers has room.
SemHasRoom == sem < workers

\* A buggy variant: ffmpeg is told to write the final output path.
EncodeTargetIsOutput == "out"

\* ffmpeg.BuildArgs(j.InputFile, j.TempFile, cfg): ffmpeg writes the temp file.
EncodeTarget == "tmp"

\* A buggy variant: Lock() does not wait for the holder.
MutexFreeAlways == TRUE

\* stateMu.Lock() can proceed.
MutexFree == stateMu = 0

\* A buggy variant: the mutex stays with its holder.
UnlockForgotten(holder) == holder

\* stateMu.Unlock(), mu.Unlock(): the mutex is free.
Unlock(holder) == 0

\* A buggy variant: the file is left as it is.
RemoveNothing(content) == content

\* _ = os.Remove(file): the file is gone.
Remove(content) == "none"

\* A buggy variant: the error of ffmpeg.Run is not looked at.
AfterRunIgnoresErr(e, renamed) ==
  IF renamed THEN "processed" ELSE "finalize failed"

\* The worker's branches after ffmpeg.Run: err != nil; os.Rename failed;
\* else the job is Processed.
AfterRun(e, renamed) ==
  IF e # "nil" THEN "failed"
  ELSE IF renamed THEN "processed" ELSE "finalize failed"

\* A buggy variant: the fingerprint is taken from the file at commit.
SnapshotAtCommit(j) ==
  [size |-> inStat[JobInput(j)].size,
   modUnix |-> Unix(inStat[JobInput(j)].mtime)]

\* origSize and origModUnix of the worker, inputInfo.Size() and
\* inputInfo.ModTime().Unix() of the segment path: what os.Stat gave
\* before the job's first process was started.
Snapshot(j) == snap[j]

\* inputInfo of the segment path, as far as it is read.
InputInfo(j) ==
  FileInfo(Snapshot(j).size, [sec |-> Snapshot(j).modUnix, nsec |-> 0])

\* A buggy variant: one job is enough, whatever cfg says.
shouldUseSegmentResumeAnyCfg(disable, js) == Len(js) = 1

\* len(jobs) == 1 && !cfg.DisableSegResume
shouldUseSegmentResume(disable, js) == Len(js) = 1 /\ ~ disable

(* ------------------------------------------------- the segment workspace *)
DefaultSegmentSeconds == 600
UsPerSec == 1000000

\* segmentSeconds := cfg.SegmentSeconds; if segmentSeconds <= 0 { ... = 600 }
segmentSecondsOf(cfgSeconds) ==
  IF cfgSeconds <= 0 THEN DefaultSegmentSeconds ELSE cfgSeconds

\* int(math.Ceil(j.DurationSec / float64(segmentSeconds))), and 1 when that
\* is less than 1.  Durations are whole seconds here.
CeilDiv(a, b) == (a + b - 1) \div b

\* A buggy variant: the quotient is rounded down.
totalSegmentsFloor(dur, seconds) ==
  IF dur \div seconds < 1 THEN 1 ELSE dur \div seconds

totalSegmentsOf(dur, seconds) ==
  IF CeilDiv(dur, seconds) < 1 THEN 1 ELSE CeilDiv(dur, seconds)

\* startSec := float64(idx * segmentSeconds)
startSecAt(idx, segmentSeconds) == idx * segmentSeconds

\* A buggy variant: every segment has the full length.
segmentDurationAtFull(idx, totalDuration, segmentSeconds) == segmentSeconds

segmentDurationAt(idx, totalDuration, segmentSeconds) ==
  LET left == totalDuration - startSecAt(idx, segmentSeconds)
  IN IF left < segmentSeconds THEN left ELSE segmentSeconds

segmentResumeMeta(inputFile, outputFile, size, modUnix, seconds, dur, total) ==
  [InputFile |-> inputFile, OutputFile |-> outputFile, InputSize |-> size,
   InputModUnix |-> modUnix, SegmentSeconds |-> seconds,
   DurationSec |-> dur, TotalSegments |-> total]

\* expectedMeta of job j, for the input file as os.Stat reports it.
expectedMeta(j, info, cfgSeconds, dur) ==
  segmentResumeMeta(JobInput(j), JobOutput(j), info.size, Unix(info.mtime),
                    segmentSecondsOf(cfgSeconds), dur,
                    totalSegmentsOf(dur, segmentSecondsOf(cfgSeconds)))

\* resume_meta.json: absent, not a JSON document, or the document
\* saveSegmentMeta wrote for a plan (json.MarshalIndent, strings coerced to
\* valid UTF-8), which loadSegmentMeta reads back into a struct.
NoMeta == [kind |-> "missing"]
GarbageMeta == [kind |-> "garbage"]
MarshalMeta(m) ==
  [kind |-> "json",
   doc |-> [input_file |-> CoercePath(m.InputFile),
            output_file |-> CoercePath(m.OutputFile),
            input_size |-> m.InputSize,
            input_mod_unix |-> m.InputModUnix,
            segment_seconds |-> m.SegmentSeconds,
            duration_sec |-> m.DurationSec,
            total_segments |-> m.TotalSegments]]
loadSegmentMeta(file) ==
  IF file.kind = "json"
    THEN [err |-> "nil",
          meta |-> segmentResumeMeta(file.doc.input_file,
                     file.doc.output_file, file.doc.input_size,
                     file.doc.input_mod_unix, file.doc.segment_seconds,
                     file.doc.duration_sec, file.doc.total_segments)]
    ELSE [err |-> IF file.kind = "missing" THEN "not exist" ELSE "syntax"]

\* A buggy variant: the segment length is not compared.
MetaDiffersNoSeconds(meta, expected) ==
  \/ meta.InputFile # expected.InputFile
  \/ meta.OutputFile # expected.OutputFile
  \/ meta.InputSize # expected.InputSize
  \/ meta.InputModUnix # expected.InputModUnix
  \/ meta.TotalSegments # expected.TotalSegments

\* The comparison of cleanupSegmentWorkspaceIfChanged: DurationSec is not
\* part of it.
MetaDiffers(meta, expected) ==
  \/ meta.InputFile # expected.InputFile
  \/ meta.OutputFile # expected.OutputFile
  \/ meta.InputSize # expected.InputSize
  \/ meta.InputModUnix # expected.InputModUnix
  \/ meta.SegmentSeconds # expected.SegmentSeconds
  \/ meta.TotalSegments # expected.TotalSegments

\* A buggy variant: the workspace is always removed.
cleanupSegmentWorkspaceAlways(file, expected) == "remove"

\* cleanupSegmentWorkspaceIfChanged: "keep" (no meta file, or a plan that
\* matches) or "remove" (a meta file that cannot be read, or another plan).
cleanupSegmentWorkspaceIfChanged(file, expected) ==
  LET res == loadSegmentMeta(file)
  IN IF res.err # "nil"
       THEN IF res.err = "not exist" THEN "keep" ELSE "remove"
       ELSE IF MetaDiffers(res.meta, expected) THEN "remove" ELSE "keep"

\* seg_<idx>.mp4: absent; a file ffprobe fails on or reports no length for;
\* a finished segment an earlier run left, of the length ffprobe reports
\* (one second); or the segment this run encoded.
SegIndexes == 0..(MaxDur - 1)
NoSeg == [by |-> "none", dur |-> 0]
BadSeg == [by |-> "bad", dur |-> 0]
OldSeg(d) == [by |-> "old", dur |-> d]
NewSeg(d) == [by |-> "new", dur |-> d]
PriorSegFiles == {NoSeg, BadSeg, OldSeg(1)}
EmptyWorkspace == [i \in SegIndexes |-> NoSeg]
NoList == [exists |-> FALSE, files |-> << >>]
NoPlan == [segmentSeconds |-> 0, totalSegments |-> 0]

\* The plans an earlier run may have left in resume_meta.json: the one this
\* run computes, or that plan with one field different.
OtherPath == Path("w", "z", ".mp4")
PriorMetas(exp) ==
  {NoMeta, GarbageMeta, MarshalMeta(exp),
   MarshalMeta([exp EXCEPT !.InputFile = OtherPath]),
   MarshalMeta([exp EXCEPT !.OutputFile = OtherPath]),
   MarshalMeta([exp EXCEPT !.InputSize = exp.InputSize - 1]),
   MarshalMeta([exp EXCEPT !.InputModUnix = exp.InputModUnix - 1]),
   MarshalMeta([exp EXCEPT !.SegmentSeconds = exp.SegmentSeconds + 1]),
   MarshalMeta([exp EXCEPT !.DurationSec = exp.DurationSec + 1]),
   MarshalMeta([exp EXCEPT !.TotalSegments = exp.TotalSegments + 1])}

\* The segment files an earlier run may have left under a plan of total
\* segments.
PriorWorkspaces(total) ==
  {ws \in [SegIndexes -> PriorSegFiles] :
     \A i \in SegIndexes : i >= total => ws[i] = NoSeg}

\* cfg.InputPath names a directory or one file; segment resume is switched
\* off (--disable-segment-resume) in a run on one file.
Configs ==
  {[isDir |-> TRUE, disableSeg |-> FALSE],
   [isDir |-> FALSE, disableSeg |-> FALSE],
   [isDir |-> FALSE, disableSeg |-> TRUE]}

\* The files ScanJobs looks at: the one named, or those the walk finds.
NumFiles == IF isDir THEN NumJobs ELSE 1

procOthers == <<outPresent, query, savePc, loaded, runVars, segVars, outDir>>

ProcOthersInit ==
  /\ outDir = CfgOutputPath
  /\ outPresent = {}
  /\ query = NoQuery
  /\ savePc = "idle"
  /\ loaded = NotLoaded
  /\ bar = 0
  /\ lastTimeUs = << >>
  /\ runPc = << >>
  /\ stdout = << >>

Init ==
  /\ ProcOthersInit
  /\ workers \in 0..NumJobs
  /\ prior \in Priors
  /\ \E c \in Configs : isDir = c.isDir /\ disableSeg = c.disableSeg
  /\ prior = "segments" => ~ isDir /\ ~ disableSeg
  /\ prior = "overwrite" => ~ isDir
  /\ IF prior = "segments"
       THEN /\ segSeconds \in 0..MaxSegSeconds
            /\ durationSec \in 0..MaxDur
            /\ wsMeta \in PriorMetas(expectedMeta(1, JobInfo, segSeconds,
                                                  durationSec))
            /\ wsSeg \in PriorWorkspaces(
                 totalSegmentsOf(durationSec, segmentSecondsOf(segSeconds)))
       ELSE /\ segSeconds = 1
            /\ durationSec = 1
            /\ wsMeta = NoMeta
            /\ wsSeg = EmptyWorkspace
  /\ wsTmp = {}
  /\ wsList = NoList
  /\ mergeTmp = "none"
  /\ segPlan = NoPlan
  /\ segIdx = 0
  /\ segLast = 0
  /\ segLines = 0
  /\ metaFound = "unread"
  /\ segStarted = << >>
  /\ segSkipped = << >>
  /\ madeBy = [i \in SegIndexes |-> {}]
  /\ runNo = 1
  /\ ctxDone = FALSE
  /\ crashed = FALSE
  /\ mainPc = "scan"
  /\ scan1 = << >>
  /\ jobs = << >>
  /\ next = 1
  /\ sem = 0
  /\ wg = 0
  /\ wpc = [j \in Jobs |-> "none"]
  /\ snap = [j \in Jobs |-> NoSnap]
  /\ err = [j \in Jobs |-> "nil"]
  /\ exitKind = [j \in Jobs |-> "none"]
  /\ item = [j \in Jobs |-> NoItem]
  /\ saveErr = [j \in Jobs |-> FALSE]
  /\ saveData = [j \in Jobs |-> Marshal(EmptyState)]
  /\ tmpFile = [j \in Jobs |-> PriorTmp(prior)]
  /\ outFile = [j \in Jobs |-> PriorOut(prior)]
  /\ inStat = [p \in JobInputs |-> JobInfo]
  /\ state = EmptyState
  /\ ckFs = [f \in {"path", "tmp"} |->
               IF f = "path" THEN PriorCkFile(prior) ELSE Missing]
  /\ stateMu = 0
  /\ mu = 0
  /\ results = << >>
  /\ scan2 = << >>

(* ------------------------------------------------------------- discovery *)
FirstRun == mainPc \in {"scan", "walk"}
OutputsPresent == {JobOutput(k) : k \in {i \in Jobs : outFile[i] # "none"}}

\* ScanJobs up to the walk: os.Stat(cfg.InputPath) and
\* loadResumeState(statePath); an error of either is returned, and main
\* prints it and exits.  The next run is a new process: of the run before
\* it has the files only (item, saveErr, jobs and scan1 are kept as the
\* record of what that run did).
ScanBegin(statOk) ==
  /\ ~ crashed
  /\ mainPc \in {"scan", "returned"}
  /\ LET res == loadResumeState(ckFs["path"])
     IN IF ~ statOk \/ res.err
          THEN /\ mainPc' = IF ~ FirstRun THEN "scan failed"
                            ELSE IF ~ statOk THEN "fatal stat"
                            ELSE "fatal load"
               /\ state' = IF FirstRun THEN state ELSE EmptyState
          ELSE /\ mainPc' = IF FirstRun THEN "walk" ELSE "walk2"
               /\ state' = res.state
  /\ IF FirstRun
       THEN UNCHANGED <<ctxDone, next, sem, wg, wpc, snap, err, exitKind,
                        saveData, results>>
       ELSE /\ ctxDone' = FALSE
            /\ next' = 1
            /\ sem' = 0
            /\ wg' = 0
            /\ wpc' = [j \in Jobs |-> "none"]
            /\ snap' = [j \in Jobs |-> NoSnap]
            /\ err' = [j \in Jobs |-> "nil"]
            /\ exitKind' = [j \in Jobs |-> "none"]
            /\ saveData' = [j \in Jobs |-> Marshal(EmptyState)]
            /\ results' = << >>
  /\ UNCHANGED <<inStat, ckFs, crashed, workers, prior, item, saveErr,
                 tmpFile, outFile, stateMu, mu, scan2, isDir, disableSeg, scan1,
                 jobs, procOthers>>

\* addFile for the next file: the one cfg.InputPath names, or the next one
\* filepath.Walk hands over.  A file that becomes a Job is appended to jobs.
\* In the next run the user answers y and ffprobe succeeds.
ScanFile(answer, probeOk) ==
  /\ ~ crashed
  /\ mainPc \in {"walk", "walk2"}
  /\ ~ FirstRun => answer /\ probeOk
  /\ LET scan == IF FirstRun THEN scan1 ELSE scan2
         f == Len(scan) + 1
         res == addFile(state, JobInput(f), inStat, OutputsPresent,
                        answer, probeOk)
     IN /\ f <= NumFiles
        /\ IF FirstRun
             THEN /\ scan1' = Append(scan1, res)
                  /\ jobs' = IF res.status = "Job" THEN Append(jobs, f)
                             ELSE jobs
                  /\ mainPc' = IF f = NumFiles THEN "scanned" ELSE "walk"
                  /\ UNCHANGED scan2
             ELSE /\ scan2' = Append(scan2, res)
                  /\ mainPc' = IF f = NumFiles THEN "rescanned" ELSE "walk2"
                  /\ UNCHANGED <<scan1, jobs>>
  /\ UNCHANGED <<state, inStat, ckFs, crashed, ctxDone, workers, prior, next,
                 sem, wg, wpc, snap, err, item, saveErr, tmpFile, outFile,
                 stateMu, mu, results, isDir, disableSeg, saveData, exitKind,
                 procOthers>>

\* filepath.Walk hands the callback an error, the callback returns it and
\* the walk stops: ScanJobs returns the error, main prints it and exits.
ScanWalkError ==
  /\ ~ crashed
  /\ mainPc \in {"walk", "walk2"}
  /\ isDir
  /\ mainPc' = IF FirstRun THEN "fatal walk" ELSE "scan failed"
  /\ UNCHANGED <<state, inStat, ckFs, crashed, ctxDone, workers, prior, next,
                 sem, wg, wpc, snap, err, item, saveErr, tmpFile, outFile,
                 stateMu, mu, results, scan2, isDir, disableSeg, scan1, jobs,
                 saveData, exitKind, procOthers>>

\* main after ScanJobs: exit when there is no job; cfg.Workers = 1 when
\* there is one; then Process, on its segment path or its batch path.
MainStart ==
  /\ ~ crashed
  /\ mainPc = "scanned"
  /\ mainPc' = IF Len(jobs) = 0 THEN "no jobs"
               ELSE IF shouldUseSegmentResume(disableSeg, jobs) THEN "segment"
               ELSE "loop"
  /\ workers' = IF Len(jobs) = 1 THEN 1 ELSE workers
  /\ UNCHANGED <<state, inStat, ckFs, crashed, ctxDone, prior, next, sem,
                 wg, wpc, snap, err, item, saveErr, tmpFile, outFile, stateMu, mu,
                 results, scan2, isDir, disableSeg, scan1, jobs, saveData,
                 exitKind, procOthers>>

(* ------------------------------------------------- Process, the batch path *)
BatchPcs == {"loop", "select", "wait"}
SegPcs == {"segment", "seg cleanup", "seg meta", "seg loop", "seg start",
           "seg run", "seg waited", "seg list", "seg concat",
           "seg concat run", "seg concat waited", "seg commit"}
Running == ~ crashed /\ mainPc \in BatchPcs \cup SegPcs

\* The signal goroutine of main calls cancel().
Cancel ==
  /\ Running
  /\ ~ ctxDone
  /\ ctxDone' = TRUE
  /\ UNCHANGED <<state, inStat, ckFs, crashed, workers, prior, mainPc, next,
                 sem, wg, wpc, snap, err, item, saveErr, tmpFile, outFile,
                 stateMu, mu, results, scan2, isDir, disableSeg, scan1, jobs,
                 saveData, exitKind, procOthers>>

\* The program is killed outright: no goroutine takes another step.
Crash ==
  /\ Running
  /\ crashed' = TRUE
  /\ UNCHANGED <<state, inStat, ckFs, ctxDone, workers, prior, mainPc, next,
                 sem, wg, wpc, snap, err, item, saveErr, tmpFile, outFile,
                 stateMu, mu, results, scan2, isDir, disableSeg, scan1, jobs,
                 saveData, exitKind, procOthers>>

\* A buggy variant: the loop does not look at ctx.
LoopEndsIgnoresCtx(cancelled) == next > Len(jobs)

\* The for loop is over: no job is left, or ctx.Err() != nil.
LoopEnds(cancelled) == next > Len(jobs) \/ cancelled

\* for _, job := range jobs { if ctx.Err() != nil { break }; wg.Add(1)
MainLoop ==
  /\ Running
  /\ mainPc = "loop"
  /\ IF LoopEnds(ctxDone)
       THEN mainPc' = "wait" /\ wg' = wg
       ELSE mainPc' = "select" /\ wg' = wg + 1
  /\ UNCHANGED <<state, inStat, ckFs, crashed, ctxDone, workers, prior, next,
                 sem, wpc, snap, err, item, saveErr, tmpFile, outFile,
                 stateMu, mu, results, scan2, isDir, disableSeg, scan1, jobs,
                 saveData, exitKind, procOthers>>

\* select { case sem <- struct{}{}: } and go func(j Job) {...}(job)
MainAdmit ==
  /\ Running
  /\ mainPc = "select"
  /\ SemHasRoom
  /\ sem' = sem + 1
  /\ wpc' = [wpc EXCEPT ![jobs[next]] = "start"]
  /\ next' = next + 1
  /\ mainPc' = "loop"
  /\ UNCHANGED <<state, inStat, ckFs, crashed, ctxDone, workers, prior, wg,
                 snap, err, item, saveErr, tmpFile, outFile, stateMu, mu, results,
                 scan2, isDir, disableSeg, scan1, jobs, saveData, exitKind,
                 procOthers>>

\* select { case <-ctx.Done(): wg.Done(); break loop }
MainCtxDone ==
  /\ Running
  /\ mainPc = "select"
  /\ ctxDone
  /\ wg' = wg - 1
  /\ mainPc' = "wait"
  /\ UNCHANGED <<state, inStat, ckFs, crashed, ctxDone, workers, prior, next,
                 sem, wpc, snap, err, item, saveErr, tmpFile, outFile,
                 stateMu, mu, results, scan2, isDir, disableSeg, scan1, jobs,
                 saveData, exitKind, procOthers>>

\* wg.Wait(); return results
MainReturn ==
  /\ Running
  /\ mainPc = "wait"
  /\ wg = 0
  /\ mainPc' = "returned"
  /\ UNCHANGED <<state, inStat, ckFs, crashed, ctxDone, workers, prior, next,
                 sem, wg, wpc, snap, err, item, saveErr, tmpFile, outFile,
                 stateMu, mu, results, scan2, isDir, disableSeg, scan1, jobs,
                 saveData, exitKind, procOthers>>

\* The worker's first lines: if ctx.Err() != nil { return }, with the
\* deferred <-sem and wg.Done(); else os.Stat(j.InputFile) and
\* os.Remove(j.TempFile).
WorkerStart(j) ==
  /\ Running
  /\ wpc[j] = "start"
  /\ IF ctxDone
       THEN /\ wpc' = [wpc EXCEPT ![j] = "done"]
            /\ sem' = sem - 1
            /\ wg' = wg - 1
            /\ UNCHANGED <<snap, tmpFile>>
       ELSE /\ wpc' = [wpc EXCEPT ![j] = "launch"]
            /\ snap' = [snap EXCEPT ![j] =
                 IF inStat[JobInput(j)].exists
                   THEN [size |-> inStat[JobInput(j)].size,
                         modUnix |-> Unix(inStat[JobInput(j)].mtime)]
                   ELSE NoSnap]
            /\ tmpFile' = [tmpFile EXCEPT ![j] = "none"]
            /\ UNCHANGED <<sem, wg>>
  /\ UNCHANGED <<state, inStat, ckFs, crashed, ctxDone, workers, prior,
                 mainPc, next, err, item, saveErr, outFile, stateMu, mu, results,
                 scan2, isDir, disableSeg, scan1, jobs, saveData, exitKind,
                 procOthers>>

\* ffmpeg.Run up to cmd.Start(): with ctx cancelled Start returns ctx's
\* error; it may fail for a reason of its own; else ffmpeg runs and opens
\* the file it was told to write.
ProcStart(j, ok) ==
  /\ Running
  /\ wpc[j] = "launch"
  /\ IF ctxDone \/ ~ ok
       THEN /\ wpc' = [wpc EXCEPT ![j] = "exited"]
            /\ err' = [err EXCEPT ![j] = IF ctxDone THEN "context canceled"
                                         ELSE "start failed"]
            /\ UNCHANGED <<tmpFile, outFile>>
       ELSE /\ wpc' = [wpc EXCEPT ![j] = "run"]
            /\ IF EncodeTarget = "tmp"
                 THEN /\ tmpFile' = [tmpFile EXCEPT ![j] = "partial"]
                      /\ UNCHANGED outFile
                 ELSE /\ outFile' = [outFile EXCEPT ![j] = "partial"]
                      /\ UNCHANGED tmpFile
            /\ UNCHANGED err
  /\ UNCHANGED <<state, inStat, ckFs, crashed, ctxDone, workers, prior,
                 mainPc, next, sem, wg, snap, item, saveErr, stateMu, mu, results,
                 scan2, isDir, disableSeg, scan1, jobs, saveData, exitKind,
                 procOthers>>

\* How a process ends: it exits with status 0 ("ok"), it fails on its own
\* ("fail"), or exec.CommandContext kills it because ctx is cancelled.
ExitKinds == {"ok", "fail", "killed"}

\* A buggy variant: cmd.Wait() reports no error.
WaitErrorNil(kind) == "nil"

WaitError(kind) ==
  CASE kind = "ok" -> "nil"
    [] kind = "fail" -> "exit status 1"
    [] kind = "killed" -> "signal: killed"

\* The ffmpeg process of job j ends; with status 0 the file it wrote is
\* complete.  cmd.Wait() then returns nil or the process's error.
ProcExit(j, kind) ==
  /\ Running
  /\ wpc[j] = "run"
  /\ kind = "killed" => ctxDone
  /\ wpc' = [wpc EXCEPT ![j] = "waited"]
  /\ exitKind' = [exitKind EXCEPT ![j] = kind]
  /\ err' = [err EXCEPT ![j] = WaitError(kind)]
  /\ IF kind = "ok"
       THEN IF EncodeTarget = "tmp"
              THEN /\ tmpFile' = [tmpFile EXCEPT ![j] = "new"]
                   /\ UNCHANGED outFile
              ELSE /\ outFile' = [outFile EXCEPT ![j] = "new"]
                   /\ UNCHANGED tmpFile
       ELSE UNCHANGED <<tmpFile, outFile>>
  /\ UNCHANGED <<state, inStat, ckFs, crashed, ctxDone, workers, prior,
                 mainPc, next, sem, wg, snap, item, saveErr, stateMu, mu, results,
                 scan2, isDir, disableSeg, scan1, jobs, saveData, procOthers>>

\* A buggy variant: the process's own error is returned even when ctx is
\* cancelled.
RunResultNoCtx(waitErr, cancelled) == waitErr

\* A buggy variant: the error of Wait is swallowed.
RunResultSwallows(waitErr, cancelled) == "nil"

\* The end of ffmpeg.Run: nil when Wait returned nil; else ctx.Err() when
\* ctx is cancelled by now, else the process's own error.
RunResult(waitErr, cancelled) ==
  IF waitErr = "nil" THEN "nil"
  ELSE IF cancelled THEN "context canceled" ELSE waitErr

RunReturn(j) ==
  /\ Running
  /\ wpc[j] = "waited"
  /\ wpc' = [wpc EXCEPT ![j] = "exited"]
  /\ err' = [err EXCEPT ![j] = RunResult(err[j], ctxDone)]
  /\ UNCHANGED <<state, inStat, ckFs, crashed, ctxDone, workers, prior,
                 mainPc, next, sem, wg, snap, item, saveErr, tmpFile, outFile,
                 stateMu, mu, results, scan2, isDir, disableSeg, scan1, jobs,
                 saveData, exitKind, procOthers>>

\* if err != nil { os.Remove(j.TempFile); Failed } else if os.Rename fails
\* { os.Remove(j.TempFile); Failed } else { Processed; ... }
WorkerAfterRun(j, renameOk) ==
  /\ Running
  /\ wpc[j] = "exited"
  /\ LET branch == AfterRun(err[j], renameOk /\ tmpFile[j] # "none")
     IN CASE branch = "failed" ->
               /\ tmpFile' = [tmpFile EXCEPT ![j] = Remove(tmpFile[j])]
               /\ item' = [item EXCEPT ![j] =
                    [status |-> "Failed", reason |-> err[j]]]
               /\ wpc' = [wpc EXCEPT ![j] = "append"]
               /\ UNCHANGED outFile
          [] branch = "processed" ->
               /\ outFile' = [outFile EXCEPT ![j] = tmpFile[j]]
               /\ tmpFile' = [tmpFile EXCEPT ![j] = "none"]
               /\ item' = [item EXCEPT ![j] =
                    [status |-> "Processed", reason |-> ""]]
               /\ wpc' = [wpc EXCEPT ![j] = "lock"]
          [] branch = "finalize failed" ->
               /\ tmpFile' = [tmpFile EXCEPT ![j] = Remove(tmpFile[j])]
               /\ item' = [item EXCEPT ![j] =
                    [status |-> "Failed", reason |-> "finalize output failed"]]
               /\ wpc' = [wpc EXCEPT ![j] = "append"]
               /\ UNCHANGED outFile
  /\ err' = [err EXCEPT ![j] = "nil"]
  /\ UNCHANGED <<state, inStat, ckFs, crashed, ctxDone, workers, prior,
                 mainPc, next, sem, wg, snap, saveErr, stateMu, mu, results,
                 scan2, isDir, disableSeg, scan1, jobs, saveData, exitKind,
                 procOthers>>

\* stateMu.Lock(); markCompleted(state, j.InputFile, j.OutputFile, origSize,
\* origModUnix); and saveResumeState up to json.MarshalIndent(state).
WorkerLock(j) ==
  /\ Running
  /\ wpc[j] = "lock"
  /\ MutexFree
  /\ stateMu' = j
  /\ state' = markCompleted(state, JobInput(j), JobOutput(j),
                            Snapshot(j).size, Snapshot(j).modUnix)
  /\ saveData' = [saveData EXCEPT ![j] = Marshal(state')]
  /\ wpc' = [wpc EXCEPT ![j] = "write"]
  /\ UNCHANGED <<inStat, ckFs, crashed, ctxDone, workers, prior, mainPc,
                 next, sem, wg, snap, err, item, saveErr, tmpFile, outFile,
                 mu, results, scan2, isDir, disableSeg, scan1, jobs, exitKind,
                 procOthers>>

\* saveResumeState: os.WriteFile(tmp, data, 0644).  When the save fails up
\* to here, it returns the error and the worker unlocks stateMu.
WorkerSaveWrite(j, ok) ==
  /\ Running
  /\ wpc[j] = "write"
  /\ IF ok
       THEN /\ ckFs' = [ckFs EXCEPT ![saveTmpName] = Json(saveData[j])]
            /\ wpc' = [wpc EXCEPT ![j] = "rename"]
            /\ UNCHANGED <<saveErr, stateMu, saveData>>
       ELSE /\ saveErr' = [saveErr EXCEPT ![j] = TRUE]
            /\ stateMu' = Unlock(stateMu)
            /\ wpc' = [wpc EXCEPT ![j] = "append"]
            /\ saveData' = [saveData EXCEPT ![j] = Marshal(EmptyState)]
            /\ UNCHANGED ckFs
  /\ UNCHANGED <<state, inStat, crashed, ctxDone, workers, prior, mainPc,
                 next, sem, wg, snap, err, item, tmpFile, outFile, mu,
                 results, scan2, isDir, disableSeg, scan1, jobs, exitKind,
                 procOthers>>

\* saveResumeState: return os.Rename(tmp, path); stateMu.Unlock().
WorkerSaveRename(j, ok) ==
  /\ Running
  /\ wpc[j] = "rename"
  /\ IF ok /\ ckFs[saveTmpName] # Missing
       THEN /\ ckFs' = [f \in {"path", "tmp"} |->
                          IF f = "path" THEN ckFs[saveTmpName]
                          ELSE IF f = saveTmpName THEN Missing ELSE ckFs[f]]
            /\ UNCHANGED saveErr
       ELSE /\ saveErr' = [saveErr EXCEPT ![j] = TRUE]
            /\ UNCHANGED ckFs
  /\ stateMu' = Unlock(stateMu)
  /\ saveData' = [saveData EXCEPT ![j] = Marshal(EmptyState)]
  /\ wpc' = [wpc EXCEPT ![j] = "append"]
  /\ UNCHANGED <<state, inStat, crashed, ctxDone, workers, prior, mainPc,
                 next, sem, wg, snap, err, item, tmpFile, outFile, mu,
                 results, scan2, isDir, disableSeg, scan1, jobs, exitKind,
                 procOthers>>

\* mu.Lock() can proceed.
MuFree == mu = 0

\* mu.Lock()
WorkerAppendLock(j) ==
  /\ Running
  /\ mainPc \in BatchPcs
  /\ wpc[j] = "append"
  /\ MuFree
  /\ mu' = j
  /\ wpc' = [wpc EXCEPT ![j] = "appending"]
  /\ UNCHANGED <<state, inStat, ckFs, crashed, ctxDone, workers, prior,
                 mainPc, next, sem, wg, snap, err, item, saveErr, tmpFile,
                 outFile, stateMu, results, scan2, isDir, disableSeg, scan1,
                 jobs, saveData, exitKind, procOthers>>

\* results = append(results, item); mu.Unlock(); then the deferred <-sem
\* and wg.Done().
WorkerAppend(j) ==
  /\ Running
  /\ mainPc \in BatchPcs
  /\ wpc[j] = "appending"
  /\ results' = Append(results, [job |-> j, status |-> item[j].status,
                                 reason |-> item[j].reason])
  /\ mu' = Unlock(mu)
  /\ sem' = sem - 1
  /\ wg' = wg - 1
  /\ wpc' = [wpc EXCEPT ![j] = "done"]
  /\ UNCHANGED <<state, inStat, ckFs, crashed, ctxDone, workers, prior,
                 mainPc, next, snap, err, item, saveErr, tmpFile, outFile,
                 stateMu, scan2, isDir, disableSeg, scan1, jobs, saveData,
                 exitKind, procOthers>>

\* mu.Lock(); results = append(results, item); mu.Unlock(); then the
\* deferred <-sem and wg.Done(), as one step: the critical section of mu is
\* the append alone.  WorkerAppendLock and WorkerAppend take it apart.
WorkerFinish(j) ==
  /\ Running
  /\ mainPc \in BatchPcs
  /\ wpc[j] = "append"
  /\ MuFree
  /\ results' = Append(results, [job |-> j, status |-> item[j].status,
                                 reason |-> item[j].reason])
  /\ sem' = sem - 1
  /\ wg' = wg - 1
  /\ wpc' = [wpc EXCEPT ![j] = "done"]
  /\ UNCHANGED <<state, inStat, ckFs, crashed, ctxDone, workers, prior,
                 mainPc, next, snap, err, item, saveErr, tmpFile, outFile,
                 stateMu, mu, scan2, isDir, disableSeg, scan1, jobs, saveData,
                 exitKind, procOthers>>

(* ---------------------------------- processSingleJobWithSegmentResume *)
\* What the segment path never changes.
segFixed == <<state, inStat, ckFs, crashed, ctxDone, workers, prior, next,
              sem, wg, saveErr, tmpFile, stateMu, mu, scan2, isDir, disableSeg,
              scan1, jobs, saveData, outPresent, query, savePc, loaded,
              lastTimeUs, runPc, stdout, segSeconds, durationSec, outDir,
              madeBy, runNo>>

SegJob == jobs[1]

\* item.Status = "Failed"; item.Reason = ...; return item: Process returns
\* the one item.
SegFail(reason) ==
  /\ item' = [item EXCEPT ![SegJob] = [status |-> "Failed", reason |-> reason]]
  /\ results' = <<[job |-> SegJob, status |-> "Failed", reason |-> reason]>>
  /\ mainPc' = "returned"

\* os.Stat(j.InputFile), then segmentSeconds and totalSegments.
SegStat(ok) ==
  /\ ~ crashed
  /\ mainPc = "segment"
  /\ IF ok /\ inStat[JobInput(SegJob)].exists
       THEN /\ snap' = [snap EXCEPT ![SegJob] =
                 [size |-> inStat[JobInput(SegJob)].size,
                  modUnix |-> Unix(inStat[JobInput(SegJob)].mtime)]]
            /\ segPlan' =
                 [segmentSeconds |-> segmentSecondsOf(segSeconds),
                  totalSegments |->
                    totalSegmentsOf(durationSec, segmentSecondsOf(segSeconds))]
            /\ mainPc' = "seg cleanup"
            /\ UNCHANGED <<item, results>>
       ELSE /\ SegFail("stat input failed")
            /\ UNCHANGED <<snap, segPlan>>
  /\ UNCHANGED <<wpc, err, outFile, exitKind, bar, wsMeta, wsSeg, wsTmp,
                 wsList, mergeTmp, segIdx, segLast, segLines, metaFound,
                 segStarted, segSkipped, segFixed>>

\* What loadSegmentMeta and the comparison make of resume_meta.json: for
\* another plan, the first field that differs.
MetaFound(file, expected) ==
  LET res == loadSegmentMeta(file)
      m == res.meta
  IN CASE res.err = "not exist" -> "missing"
       [] res.err = "syntax" -> "unreadable"
       [] res.err = "nil" ->
            IF ~ MetaDiffers(m, expected) THEN "same plan"
            ELSE IF m.InputFile # expected.InputFile THEN "other input_file"
            ELSE IF m.OutputFile # expected.OutputFile THEN "other output_file"
            ELSE IF m.InputSize # expected.InputSize THEN "other input_size"
            ELSE IF m.InputModUnix # expected.InputModUnix
              THEN "other input_mod_unix"
            ELSE IF m.SegmentSeconds # expected.SegmentSeconds
              THEN "other segment_seconds"
            ELSE "other total_segments"

\* os.RemoveAll(workDir) removes everything it can and returns the first
\* error it met: the whole workspace is gone ("all"), or the call failed
\* with nothing removed ("none") or with resume_meta.json unlinked and the
\* segment files left ("plan file").
RemoveOutcomes == {"all", "none", "plan file"}

\* cleanupSegmentWorkspaceIfChanged(workDir, expectedMeta): os.RemoveAll
\* deletes the workspace, or fails and the function returns.
SegCleanup(removed) ==
  /\ ~ crashed
  /\ mainPc = "seg cleanup"
  /\ LET expected == expectedMeta(SegJob, InputInfo(SegJob),
                                  segSeconds, durationSec)
     IN /\ metaFound' = MetaFound(wsMeta, expected)
        /\ IF cleanupSegmentWorkspaceIfChanged(wsMeta, expected) = "keep"
          THEN /\ mainPc' = "seg meta"
               /\ UNCHANGED <<wsMeta, wsSeg, wsTmp, wsList, item, results>>
          ELSE IF removed = "all"
            THEN /\ wsMeta' = NoMeta
                 /\ wsSeg' = EmptyWorkspace
                 /\ wsTmp' = {}
                 /\ wsList' = NoList
                 /\ mainPc' = "seg meta"
                 /\ UNCHANGED <<item, results>>
            ELSE /\ SegFail("cleanup segment workspace failed")
                 /\ wsMeta' = IF removed = "plan file" THEN NoMeta ELSE wsMeta
                 /\ UNCHANGED <<wsSeg, wsTmp, wsList>>
  /\ UNCHANGED <<wpc, snap, err, outFile, exitKind, bar, mergeTmp, segPlan,
                 segIdx, segLast, segLines, segStarted, segSkipped, segFixed>>

\* os.MkdirAll(workDir) and saveSegmentMeta: os.WriteFile writes the plan,
\* fails before it opened the file, or fails after it truncated it.
MetaOutcomes == {"ok", "mkdir failed", "write failed", "write torn"}
SegSaveMeta(outcome) ==
  /\ ~ crashed
  /\ mainPc = "seg meta"
  /\ LET expected == expectedMeta(SegJob, InputInfo(SegJob),
                                  segSeconds, durationSec)
     IN CASE outcome = "ok" ->
               /\ wsMeta' = MarshalMeta(expected)
               /\ segIdx' = 0
               /\ mainPc' = "seg loop"
               /\ UNCHANGED <<item, results>>
          [] outcome = "mkdir failed" ->
               /\ SegFail("create segment workspace failed")
               /\ UNCHANGED <<wsMeta, segIdx>>
          [] outcome = "write failed" ->
               /\ SegFail("save segment meta failed")
               /\ UNCHANGED <<wsMeta, segIdx>>
          [] outcome = "write torn" ->
               /\ wsMeta' = GarbageMeta
               /\ SegFail("save segment meta failed")
               /\ UNCHANGED segIdx
  /\ UNCHANGED <<wpc, snap, err, outFile, exitKind, bar, wsSeg, wsTmp, wsList,
                 mergeTmp, segPlan, segLast, segLines, metaFound, segStarted,
                 segSkipped, segFixed>>

\* A buggy variant: no finished segment is recognised.
ProbedNever(file) == FALSE

\* utils.GetVideoDuration(segmentFile): err == nil && segDur > 0
Probed(file) == file.by \in {"old", "new"} /\ file.dur > 0

\* globalBar.Add64(int64(segDur * 1000000))
Credit(segDur) == segDur * UsPerSec

\* The head of the segment loop for idx: the loop is over; ctx is
\* cancelled; the segment has no length; its finished file is there and is
\* credited; or the file, if any, and the temp file are removed for the
\* encode.
SegLoop ==
  /\ ~ crashed
  /\ mainPc = "seg loop"
  /\ LET file == wsSeg[segIdx]
     IN CASE segIdx >= segPlan.totalSegments ->
               /\ mainPc' = "seg list"
               /\ UNCHANGED <<item, results, segIdx, bar, segSkipped, wsSeg,
                              wsTmp>>
          [] segIdx < segPlan.totalSegments /\ ctxDone ->
               /\ SegFail("context canceled")
               /\ UNCHANGED <<segIdx, bar, segSkipped, wsSeg, wsTmp>>
          [] segIdx < segPlan.totalSegments /\ ~ ctxDone
             /\ segmentDurationAt(segIdx, durationSec,
                                  segPlan.segmentSeconds) <= 0 ->
               /\ segIdx' = segIdx + 1
               /\ UNCHANGED <<mainPc, item, results, bar, segSkipped, wsSeg,
                              wsTmp>>
          [] segIdx < segPlan.totalSegments /\ ~ ctxDone
             /\ segmentDurationAt(segIdx, durationSec,
                                  segPlan.segmentSeconds) > 0 ->
               IF file.by # "none" /\ Probed(file)
                 THEN /\ bar' = bar + Credit(file.dur)
                      /\ segSkipped' = Append(segSkipped,
                           [idx |-> segIdx, credit |-> Credit(file.dur)])
                      /\ segIdx' = segIdx + 1
                      /\ UNCHANGED <<mainPc, item, results, wsSeg, wsTmp>>
                 ELSE /\ wsSeg' = [wsSeg EXCEPT ![segIdx] = NoSeg]
                      /\ wsTmp' = wsTmp \ {segIdx}
                      /\ mainPc' = "seg start"
                      /\ UNCHANGED <<item, results, segIdx, bar, segSkipped>>
  /\ UNCHANGED <<wpc, snap, err, outFile, exitKind, wsMeta, wsList, mergeTmp,
                 segPlan, segLast, segLines, metaFound, segStarted, segFixed>>

\* ffmpeg.Run(ctx, BuildSegmentArgs(j.InputFile, segmentTmp, ...)) up to
\* cmd.Start(): the process starts and opens segmentTmp, or Run returns the
\* error and the segment path removes segmentTmp and returns.
SegProcStart(ok) ==
  /\ ~ crashed
  /\ mainPc = "seg start"
  /\ IF ctxDone \/ ~ ok
       THEN /\ SegFail(IF ctxDone THEN "context canceled" ELSE "start failed")
            /\ UNCHANGED <<wsTmp, segStarted, segLast, segLines>>
       ELSE /\ wsTmp' = wsTmp \cup {segIdx}
            /\ segStarted' = Append(segStarted, segIdx)
            /\ segLast' = 0
            /\ mainPc' = "seg run"
            /\ UNCHANGED segLines
            /\ UNCHANGED <<item, results>>
  /\ UNCHANGED <<wpc, snap, err, outFile, exitKind, bar, wsMeta, wsSeg,
                 wsList, mergeTmp, segPlan, segIdx, metaFound, segSkipped,
                 segFixed>>

\* scanner.Scan() hands Run the next line the segment's process wrote.
SegRunLine(line) ==
  /\ ~ crashed
  /\ mainPc = "seg run"
  /\ segLines < MaxLines
  /\ bar' = bar + RunStep(segLast, line).delta
  /\ segLast' = RunStep(segLast, line).last
  /\ segLines' = segLines + 1
  /\ UNCHANGED <<mainPc, wpc, snap, err, item, outFile, results, exitKind,
                 wsMeta, wsSeg, wsTmp, wsList, mergeTmp, segPlan, segIdx,
                 metaFound, segStarted, segSkipped, segFixed>>

\* The segment's process ends and cmd.Wait() returns.
SegProcExit(kind) ==
  /\ ~ crashed
  /\ mainPc = "seg run"
  /\ kind = "killed" => ctxDone
  /\ exitKind' = [exitKind EXCEPT ![SegJob] = kind]
  /\ err' = [err EXCEPT ![SegJob] = WaitError(kind)]
  /\ mainPc' = "seg waited"
  /\ UNCHANGED <<wpc, snap, item, outFile, results, bar, wsMeta, wsSeg, wsTmp,
                 wsList, mergeTmp, segPlan, segIdx, segLast, segLines,
                 metaFound, segStarted, segSkipped, segFixed>>

\* Run returns; on an error segmentTmp is removed and the segment path
\* returns; else os.Rename(segmentTmp, segmentFile), and idx++.
SegRunReturn(renameOk) ==
  /\ ~ crashed
  /\ mainPc = "seg waited"
  /\ LET e == RunResult(err[SegJob], ctxDone)
         branch == AfterRun(e, renameOk)
     IN CASE branch = "failed" ->
               /\ SegFail(e)
               /\ UNCHANGED <<wsSeg, segIdx>>
          [] branch = "finalize failed" ->
               /\ SegFail("finalize segment failed")
               /\ UNCHANGED <<wsSeg, segIdx>>
          [] branch = "processed" ->
               /\ wsSeg' = [wsSeg EXCEPT ![segIdx] =
                    NewSeg(segmentDurationAt(segIdx, durationSec,
                                             segPlan.segmentSeconds))]
               /\ segIdx' = segIdx + 1
               /\ mainPc' = "seg loop"
               /\ UNCHANGED <<item, results>>
  /\ wsTmp' = wsTmp \ {segIdx}
  /\ err' = [err EXCEPT ![SegJob] = "nil"]
  /\ UNCHANGED <<wpc, snap, outFile, exitKind, bar, wsMeta, wsList, mergeTmp,
                 segPlan, segLast, segLines, metaFound, segStarted,
                 segSkipped, segFixed>>

\* The indexes 0 .. n-1, in order.
RECURSIVE UpTo(_)
UpTo(n) == IF n <= 0 THEN << >> ELSE Append(UpTo(n - 1), n - 1)

\* The first index below total whose segment file is absent, or total.
RECURSIVE FirstMissing(_, _, _)
FirstMissing(ws, from, total) ==
  IF from >= total \/ ws[from].by = "none" THEN from
  ELSE FirstMissing(ws, from + 1, total)

\* A buggy variant: the segment files are not looked for.
MissingSegmentNone(ws, total) == total

\* The index the loop over the list stops at with "missing segment for
\* concat", or total.
MissingSegment(ws, total) == FirstMissing(ws, 0, total)

\* os.Create(concatList), one line per segment file in index order (each
\* must exist; a line is written only after its file was found), Close;
\* then os.Remove(finalTmp).
ListOutcomes == {"ok", "create failed", "write failed"}
SegConcatList(outcome) ==
  /\ ~ crashed
  /\ mainPc = "seg list"
  /\ LET missing == MissingSegment(wsSeg, segPlan.totalSegments)
     IN CASE outcome = "create failed" ->
               /\ SegFail("create concat list failed")
               /\ UNCHANGED <<wsList, mergeTmp>>
          [] outcome = "write failed" /\ missing > 0 ->
               /\ wsList' = [exists |-> TRUE, files |-> << >>]
               /\ SegFail("write concat list failed")
               /\ UNCHANGED mergeTmp
          [] outcome = "write failed" /\ missing <= 0 ->
               /\ wsList' = [exists |-> TRUE, files |-> << >>]
               /\ SegFail("missing segment for concat")
               /\ UNCHANGED mergeTmp
          [] outcome = "ok" /\ missing < segPlan.totalSegments ->
               /\ wsList' = [exists |-> TRUE, files |-> UpTo(missing)]
               /\ SegFail("missing segment for concat")
               /\ UNCHANGED mergeTmp
          [] outcome = "ok" /\ missing >= segPlan.totalSegments ->
               /\ wsList' = [exists |-> TRUE,
                             files |-> UpTo(segPlan.totalSegments)]
               /\ mergeTmp' = "none"
               /\ mainPc' = "seg concat"
               /\ UNCHANGED <<item, results>>
  /\ UNCHANGED <<wpc, snap, err, outFile, exitKind, bar, wsMeta, wsSeg, wsTmp,
                 segPlan, segIdx, segLast, segLines, metaFound, segStarted,
                 segSkipped, segFixed>>

\* ffmpeg.ConcatSegments up to cmd.Start(): the process starts and opens
\* finalTmp, or the error is returned, finalTmp is removed and the segment
\* path returns.
SegConcatStart(ok) ==
  /\ ~ crashed
  /\ mainPc = "seg concat"
  /\ IF ctxDone \/ ~ ok
       THEN /\ SegFail(IF ctxDone THEN "context canceled" ELSE "start failed")
            /\ UNCHANGED mergeTmp
       ELSE /\ mergeTmp' = "partial"
            /\ mainPc' = "seg concat run"
            /\ UNCHANGED <<item, results>>
  /\ UNCHANGED <<wpc, snap, err, outFile, exitKind, bar, wsMeta, wsSeg, wsTmp,
                 wsList, segPlan, segIdx, segLast, segLines, metaFound,
                 segStarted, segSkipped, segFixed>>

\* The concat process ends; with status 0 finalTmp is complete.
SegConcatExit(kind) ==
  /\ ~ crashed
  /\ mainPc = "seg concat run"
  /\ kind = "killed" => ctxDone
  /\ exitKind' = [exitKind EXCEPT ![SegJob] = kind]
  /\ err' = [err EXCEPT ![SegJob] = WaitError(kind)]
  /\ mergeTmp' = IF kind = "ok" THEN "new" ELSE mergeTmp
  /\ mainPc' = "seg concat waited"
  /\ UNCHANGED <<wpc, snap, item, outFile, results, bar, wsMeta, wsSeg, wsTmp,
                 wsList, segPlan, segIdx, segLast, segLines, metaFound,
                 segStarted, segSkipped, segFixed>>

\* ConcatSegments returns; on an error finalTmp is removed and the segment
\* path returns; else os.Rename(finalTmp, j.OutputFile) and the job is
\* Processed.
SegConcatReturn(renameOk) ==
  /\ ~ crashed
  /\ mainPc = "seg concat waited"
  /\ LET e == RunResult(err[SegJob], ctxDone)
         branch == AfterRun(e, renameOk)
     IN CASE branch = "failed" ->
               /\ SegFail(e)
               /\ UNCHANGED <<outFile, wpc>>
          [] branch = "finalize failed" ->
               /\ SegFail("finalize output failed")
               /\ UNCHANGED <<outFile, wpc>>
          [] branch = "processed" ->
               /\ outFile' = [outFile EXCEPT ![SegJob] = mergeTmp]
               /\ item' = [item EXCEPT ![SegJob] =
                    [status |-> "Processed", reason |-> ""]]
               /\ wpc' = [wpc EXCEPT ![SegJob] = "lock"]
               /\ mainPc' = "seg commit"
               /\ UNCHANGED results
  /\ mergeTmp' = Remove(mergeTmp)
  /\ err' = [err EXCEPT ![SegJob] = "nil"]
  /\ UNCHANGED <<snap, exitKind, bar, wsMeta, wsSeg, wsTmp, wsList, segPlan,
                 segIdx, segLast, segLines, metaFound, segStarted, segSkipped,
                 segFixed>>

\* After the mark and the save (the steps of WorkerLock, WorkerSaveWrite and
\* WorkerSaveRename, taken here by Process's own goroutine):
\* os.RemoveAll(workDir), whose error is dropped, and return item.
SegFinish(removed) ==
  /\ ~ crashed
  /\ mainPc = "seg commit"
  /\ wpc[SegJob] = "append"
  /\ IF removed = "all"
       THEN /\ wsMeta' = NoMeta
            /\ wsSeg' = EmptyWorkspace
            /\ wsTmp' = {}
            /\ wsList' = NoList
       ELSE /\ wsMeta' = IF removed = "plan file" THEN NoMeta ELSE wsMeta
            /\ UNCHANGED <<wsSeg, wsTmp, wsList>>
  /\ results' = <<[job |-> SegJob, status |-> item[SegJob].status,
                   reason |-> item[SegJob].reason]>>
  /\ wpc' = [wpc EXCEPT ![SegJob] = "done"]
  /\ mainPc' = "returned"
  /\ UNCHANGED <<snap, err, item, outFile, exitKind, bar, mergeTmp, segPlan,
                 segIdx, segLast, segLines, metaFound, segStarted, segSkipped,
                 segFixed>>

\* The steps of the program itself.
\* The steps of the program's goroutines but for the append to results.
ProgramSteps ==
  \/ \E statOk \in BOOLEAN : ScanBegin(statOk)
  \/ \E answer \in BOOLEAN, probeOk \in BOOLEAN : ScanFile(answer, probeOk)
  \/ ScanWalkError
  \/ MainStart
  \/ MainLoop
  \/ MainAdmit
  \/ MainCtxDone
  \/ MainReturn
  \/ \E j \in Jobs : WorkerStart(j)
  \/ \E j \in Jobs, ok \in BOOLEAN : ProcStart(j, ok)
  \/ \E j \in Jobs, kind \in ExitKinds : ProcExit(j, kind)
  \/ \E j \in Jobs : RunReturn(j)
  \/ \E j \in Jobs, renameOk \in BOOLEAN : WorkerAfterRun(j, renameOk)
  \/ \E j \in Jobs : WorkerLock(j)
  \/ \E j \in Jobs, ok \in BOOLEAN : WorkerSaveWrite(j, ok)
  \/ \E j \in Jobs, ok \in BOOLEAN : WorkerSaveRename(j, ok)
  \/ \E ok \in BOOLEAN : SegStat(ok)
  \/ \E removed \in RemoveOutcomes : SegCleanup(removed)
  \/ \E outcome \in MetaOutcomes : SegSaveMeta(outcome)
  \/ SegLoop
  \/ \E ok \in BOOLEAN : SegProcStart(ok)
  \/ \E line \in Lines : SegRunLine(line)
  \/ \E kind \in ExitKinds : SegProcExit(kind)
  \/ \E renameOk \in BOOLEAN : SegRunReturn(renameOk)
  \/ \E outcome \in ListOutcomes : SegConcatList(outcome)
  \/ \E ok \in BOOLEAN : SegConcatStart(ok)
  \/ \E kind \in ExitKinds : SegConcatExit(kind)
  \/ \E renameOk \in BOOLEAN : SegConcatReturn(renameOk)
  \/ \E removed \in RemoveOutcomes : SegFinish(removed)

\* The steps of a run but for the append to results: the program's and
\* the cancellation signal.
StepsButAppend == ProgramSteps \/ Cancel

Steps == StepsButAppend \/ \E j \in Jobs : WorkerFinish(j)

Next == Steps \/ Crash

Spec == Init /\ [][Next]_vars

(* ---------------------------------------------------------- claims, Spec *)
Admitted(j) == wpc[j] # "none"
ProcessReturned == mainPc = "returned"
ResultsOf(j) == {i \in DOMAIN results : results[i].job = j}

\* C1: when Process has returned, every job that was admitted through the
\* gate (its worker goroutine was started) has exactly one Result in the
\* returned list.  The code does not keep this: a worker that finds ctx
\* cancelled at its first line returns without a Result.
C1_AdmittedJobHasOneResult ==
  ProcessReturned =>
    \A j \in Jobs : Admitted(j) => Cardinality(ResultsOf(j)) = 1

RunningProcesses == {j \in Jobs : wpc[j] = "run"}

\* C2: in every reachable state the number of ffmpeg processes running at
\* the same time is at most cfg.Workers.
C2_RunningAtMostWorkers == Cardinality(RunningProcesses) <= workers

\* One slot, its process running, and the for loop waiting at the gate with
\* the next job.
C2_Witness ==
  /\ workers = 1
  /\ Cardinality(RunningProcesses) = 1
  /\ mainPc = "select"
  /\ sem = workers

\* The record the checkpoint file holds for input k, or none.
DiskState ==
  LET res == loadResumeState(ckFs["path"])
  IN IF res.err THEN EmptyState ELSE res.state
RecordOf(st, k) == IF k \in DOMAIN st THEN {st[k]} ELSE {}

\* The run is killed while job j's process is writing or has written, and
\* the worker has not renamed yet.
KilledBeforeRename(j) ==
  /\ crashed
  /\ wpc[j] \in {"run", "waited", "exited"}

\* Job j is over without a rename: ctx was cancelled and the job failed
\* with ctx's error.
CancelledBeforeRename(j) ==
  /\ ctxDone
  /\ wpc[j] \in {"append", "appending", "done"}
  /\ item[j].status = "Failed"
  /\ item[j].reason = "context canceled"

InterruptedBeforeRename(j) ==
  KilledBeforeRename(j) \/ CancelledBeforeRename(j)

\* C4 as claimed: a job interrupted after its temp file was written and
\* before the rename has no file at its final output path and no record in
\* the store.  An output the user agreed to overwrite, or the stale record
\* of an input that changed since, is still there.
C4_NoFileNoRecord ==
  \A j \in Jobs :
    (KilledBeforeRename(j) /\ tmpFile[j] \in {"partial", "new"}) =>
      /\ outFile[j] = "none"
      /\ JobInput(j) \notin DOMAIN DiskState

\* C4, amended: a job interrupted before its rename (the run killed, or
\* cancelled and the job failed for it) has left its final output path and
\* the store's record for its input, in memory and in the checkpoint file,
\* as they were before the job started: none where there was none.
C4_InterruptedLeavesOutputAndRecord ==
  \A j \in Jobs :
    InterruptedBeforeRename(j) =>
      /\ outFile[j] = PriorOut(prior)
      /\ RecordOf(DiskState, JobInput(j))
           = RecordOf(PriorState(prior), JobInput(j))
      /\ ~ crashed =>
           RecordOf(state, JobInput(j))
             = RecordOf(PriorState(prior), JobInput(j))

\* The run is killed when job 1's temp file is complete and not yet
\* renamed, while job 2 has committed; an older output and a stale record
\* of job 1's input exist.
C4_Witness ==
  /\ KilledBeforeRename(1)
  /\ wpc[1] = "exited"
  /\ err[1] = "nil"
  /\ tmpFile[1] = "new"
  /\ prior = "stale"
  /\ outFile[1] = "old"
  /\ item[2].status = "Processed"
  /\ JobInput(2) \in DOMAIN DiskState

\* The jobs of the run, and: there were some, each was processed and each
\* one's checkpoint was saved.
Selected == {jobs[n] : n \in 1..Len(jobs)}
AllCheckpointed ==
  /\ Selected # {}
  /\ \A j \in Selected : item[j].status = "Processed" /\ ~ saveErr[j]
IgnoredAsCompleted ==
  [status |-> "Ignored", reason |-> "Resume checkpoint: already completed"]

\* C5: idempotence.  After a run in which every job succeeded and its
\* checkpoint was saved, the next scan of the same inputs, with inputs,
\* outputs and checkpoint file unchanged, ignores every input with the
\* resume-checkpoint reason and selects no job.
C5_RescanSelectsNothing ==
  (mainPc = "rescanned" /\ AllCheckpointed) =>
    \A j \in Selected : scan2[j] = IgnoredAsCompleted

\* Every job was processed over an older output, in any order, and the
\* second scan is over.
C5_Witness ==
  /\ mainPc = "rescanned"
  /\ AllCheckpointed
  /\ prior = "stale"
  /\ Len(jobs) = NumJobs
  /\ \A j \in Jobs : scan2[j] = IgnoredAsCompleted

\* Job j has finished its mark-and-persist: it is past stateMu.Unlock().
Committed(j) ==
  item[j].status = "Processed" /\ wpc[j] \in {"append", "appending", "done"}
NoSaveFailed == \A j \in Jobs : ~ saveErr[j]
CompletionRecord(j) ==
  ResumeEntry(JobInput(j), JobOutput(j), JobInfo.size, Unix(JobInfo.mtime))
RecordOnDisk(j) == RecordOf(DiskState, JobInput(j)) = {CompletionRecord(j)}

\* C11: mark-and-persist is serialized under stateMu.  Whenever stateMu is
\* free (or the program has been killed, whoever held it) and no save has
\* failed, the checkpoint file holds the completion record of every job
\* committed so far, for any interleaving of the workers.
C11_CommittedJobsArePersisted ==
  (NoSaveFailed /\ (stateMu = 0 \/ crashed)) =>
    \A j \in Jobs : Committed(j) => RecordOnDisk(j)

\* The program is killed while job 2 is inside its save, the temp file
\* written and not renamed; job 1 committed before and its record is in
\* the checkpoint file.
C11_Witness ==
  /\ crashed
  /\ NoSaveFailed
  /\ Committed(1)
  /\ RecordOnDisk(1)
  /\ wpc[2] = "rename"
  /\ stateMu = 2
  /\ ckFs["tmp"] # Missing

\* A run over a directory nothing was left in, which is not killed, with
\* the one thing the scheduling guarantees about a cancelled run:
\* exec.CommandContext kills a process whose ctx is cancelled.
CancelInit == Init /\ prior = "clean" /\ isDir
SpecKill ==
  /\ CancelInit
  /\ [][Steps]_vars
  /\ \A j \in Jobs : WF_vars(ProcExit(j, "killed"))

AdmittedJobs == {j \in Jobs : Admitted(j)}
Durable(j) == RecordOnDisk(j) /\ outFile[j] = "new"
Cancelled == ctxDone /\ mainPc \in {"loop", "select", "wait"}
NoNewProcessAfterCancel ==
  [][Cancelled => \A j \in Jobs : wpc'[j] = "run" => wpc[j] = "run"]_vars
CommittedStaysCommitted ==
  [][\A j \in Jobs : Durable(j) => Durable(j)']_vars
InFlightTerminated == Cancelled ~> (crashed \/ RunningProcesses = {})

C13_CancellationDistinguished ==
  \A j \in Jobs :
    item[j].status = "Failed" =>
      /\ exitKind[j] = "killed" => item[j].reason = "context canceled"
      /\ exitKind[j] = "fail" => item[j].reason = WaitError("fail")

HasCompletionRecord(st, j) == RecordOf(st, JobInput(j)) = {CompletionRecord(j)}
HasPriorRecord(st, j) ==
  RecordOf(st, JobInput(j)) = RecordOf(PriorState(prior), JobInput(j))
InRun == mainPc \in BatchPcs \cup SegPcs \cup {"returned"}
BatchMode == Len(jobs) # 1 \/ disableSeg
FailedResults(j) ==
  {i \in DOMAIN results : results[i].job = j /\ results[i].status = "Failed"}

\* C20: in batch mode a job's record is written, in memory or in the
\* checkpoint file, only after its process succeeded and its temp file
\* was renamed to the output path; when the process or the rename fails,
\* the temp file is removed, the job's Result is Failed and the store, in
\* memory and in the file, holds for that input what it held before.
C20_RecordOnlyAfterRename ==
  \A j \in Jobs :
    /\ (HasCompletionRecord(DiskState, j)
          \/ (InRun /\ HasCompletionRecord(state, j))) =>
         /\ item[j].status = "Processed"
         /\ outFile[j] = "new"
         /\ InRun => exitKind[j] = "ok"
    /\ item[j].status = "Failed" =>
         /\ BatchMode => tmpFile[j] = "none"
         /\ HasPriorRecord(DiskState, j)
         /\ InRun => HasPriorRecord(state, j)
         /\ (InRun /\ wpc[j] = "done") => Cardinality(FailedResults(j)) = 1

\* Job 1's rename failed and its Result is in; job 2 is committed; the
\* stale record of job 1's input is still the one in the file.
C20_Witness ==
  /\ prior = "stale"
  /\ wpc[1] = "done"
  /\ item[1] = [status |-> "Failed", reason |-> "finalize output failed"]
  /\ Cardinality(FailedResults(1)) = 1
  /\ Committed(2)
  /\ HasCompletionRecord(DiskState, 2)
  /\ HasPriorRecord(DiskState, 1)

\* C17: Process takes the segment-resume path exactly when one job was
\* selected and segment resume is not disabled; with more jobs, or with one
\* job and segment resume disabled, it takes the batch path.  (With no job
\* main does not call Process.)
C17_ModeSelection ==
  [][(mainPc = "scanned" /\ mainPc' # "scanned" /\ Len(jobs) > 0) =>
       /\ mainPc' \in {"segment", "loop"}
       /\ mainPc' = "segment" <=> (Len(jobs) = 1 /\ ~ disableSeg)]_vars

\* One job and segment resume disabled: the batch loop has begun.
C17_Witness ==
  /\ Len(jobs) = 1
  /\ disableSeg
  /\ mainPc = "select"

Fatal == mainPc \in {"fatal stat", "fatal load", "fatal walk"}
PastDiscovery ==
  mainPc \in {"scanned", "no jobs", "segment", "loop", "select", "wait",
              "returned"}
ResultsFor(j) == {i \in DOMAIN results : results[i].job = j}

\* C18 as claimed: a failure of one job never aborts the batch, and the
\* run stops without processing only for an I/O error of the directory
\* walk.  ScanJobs also returns an error, and main exits on it, when
\* os.Stat(cfg.InputPath) fails and when the checkpoint file cannot be
\* loaded.
C18_OnlyWalkErrorIsFatal ==
  /\ Fatal => mainPc = "fatal walk"
  /\ (mainPc = "returned" /\ ~ ctxDone) =>
       \A j \in Selected : Cardinality(ResultsFor(j)) = 1

\* C18, amended: a failure of one job never aborts the batch (without a
\* cancellation every selected job has its Result when Process returns),
\* and the run stops without processing only for an error of discovery:
\* os.Stat of the input path fails, the checkpoint file cannot be loaded,
\* or the directory walk reports an I/O error.  A checkpoint file that is
\* malformed always stops the run; a file whose probe fails or whose
\* checkpoint cannot be saved never does.
C18_OnlyDiscoveryIsFatal ==
  /\ mainPc = "fatal walk" => isDir
  /\ mainPc = "fatal load" => Malformed(ckFs["path"])
  /\ (PastDiscovery \/ mainPc \in {"walk", "fatal walk"}) =>
       ~ Malformed(PriorCkFile(prior))
  /\ (mainPc = "returned" /\ ~ ctxDone) =>
       \A j \in Selected : Cardinality(ResultsFor(j)) = 1

\* The batch returned with a failed job, a job whose checkpoint could not
\* be saved, and a Result for each.
C18_Witness ==
  /\ mainPc = "returned"
  /\ ~ ctxDone
  /\ Len(jobs) = NumJobs
  /\ item[1].status = "Failed"
  /\ item[2].status = "Processed" /\ saveErr[2]
  /\ \A j \in Selected : Cardinality(ResultsFor(j)) = 1

(* ------------------------------------------- claims, the segment path *)
SkippedIdx == {segSkipped[n].idx : n \in DOMAIN segSkipped}
StartedIdx == {segStarted[n] : n \in DOMAIN segStarted}
Planned == 0..(segPlan.totalSegments - 1)
InSegmentLoop == mainPc \in {"seg loop", "seg start", "seg run", "seg waited"}
Concatenating ==
  mainPc \in {"seg concat", "seg concat run", "seg concat waited"}
SumCredits == UsPerSec * Cardinality(SkippedIdx)

\* C19: the shared progress counter only increases.  No step of the run
\* makes it smaller: what a progress line of a process adds is never
\* negative, whatever the line and the last value seen, and what a skipped
\* segment is credited with is positive.
C19_CounterOnlyIncreases ==
  /\ [][bar' >= bar]_vars
  /\ [](\A last \in 0..MaxUs, line \in Lines : RunStep(last, line).delta >= 0)
  /\ [](\A n \in DOMAIN segSkipped : segSkipped[n].credit > 0)

\* A segment was credited and a later segment's process reported progress
\* twice.
C19_Witness ==
  /\ Len(segSkipped) = 1
  /\ Len(segStarted) = 1
  /\ segLines = MaxLines
  /\ segLast = MaxUs
  /\ bar = UsPerSec + MaxUs

\* C15: segment resume.  When the plan found in the workspace is the
\* current one and the job has a length, the finished segments found are
\* kept as they are and never encoded again: the indexes a process is
\* started for are, in increasing order, exactly those examined whose
\* finished file was not there; each finished segment met is skipped and
\* credited with its probed length in microseconds; and the concat list
\* names all the plan's segments in index order.
C15_SegmentResume ==
  /\ [](metaFound = "same plan" /\ durationSec > 0 =>
          /\ \A n \in DOMAIN segStarted :
               n > 1 => segStarted[n - 1] < segStarted[n]
          /\ \A n \in DOMAIN segSkipped :
               n > 1 => segSkipped[n - 1].idx < segSkipped[n].idx
          /\ SkippedIdx \cap StartedIdx = {}
          /\ (InSegmentLoop \/ mainPc = "seg list" \/ Concatenating) =>
               /\ \A i \in Planned :
                    /\ i \in SkippedIdx <=> (wsSeg[i].by = "old" /\ i < segIdx)
                    /\ i \in StartedIdx =>
                         \/ wsSeg[i].by = "new" /\ i < segIdx
                         \/ wsSeg[i].by = "none" /\ i = segIdx
                    /\ i < segIdx => i \in SkippedIdx \cup StartedIdx
               /\ \A n \in DOMAIN segSkipped :
                    segSkipped[n].credit =
                      wsSeg[segSkipped[n].idx].dur * 1000000
               /\ bar >= SumCredits
          /\ Concatenating =>
               /\ Len(wsList.files) = segPlan.totalSegments
               /\ \A n \in DOMAIN wsList.files : wsList.files[n] = n - 1
               /\ \A i \in Planned : wsSeg[i].by \in {"old", "new"})
  /\ [][(metaFound' = "same plan" /\ mainPc' \in SegPcs) =>
          \A i \in SegIndexes : wsSeg[i].by = "old" => wsSeg'[i] = wsSeg[i]]_vars

\* Of two planned segments the first was found finished and skipped, the
\* second was encoded, and the job is Processed.
C15_Witness ==
  /\ metaFound = "same plan"
  /\ segPlan.totalSegments = 2
  /\ segSkipped = <<[idx |-> 0, credit |-> 1000000]>>
  /\ segStarted = <<1>>
  /\ wsList.files = <<0, 1>>
  /\ mainPc = "seg commit"

PersistedPlanDiffers ==
  LET expected == expectedMeta(SegJob, inStat[JobInput(SegJob)], segSeconds,
                               durationSec)
  IN /\ wsMeta.kind = "json"
     /\ \/ wsMeta.doc.input_file # expected.InputFile
        \/ wsMeta.doc.output_file # expected.OutputFile
        \/ wsMeta.doc.input_size # expected.InputSize
        \/ wsMeta.doc.input_mod_unix # expected.InputModUnix
        \/ wsMeta.doc.segment_seconds # expected.SegmentSeconds
        \/ wsMeta.doc.total_segments # expected.TotalSegments
OtherPlanFound ==
  metaFound \in {"other input_file", "other output_file", "other input_size",
                 "other input_mod_unix", "other segment_seconds",
                 "other total_segments"}

\* C16: plan invalidation.  When the plan in resume_meta.json differs from
\* the plan just computed in input path, output path, input size, input
\* modification time, segment length or number of segments, the step that
\* compares them leaves an empty workspace (or, when the workspace cannot
\* be deleted, the job fails there), before any segment is examined: no
\* segment of an earlier run is skipped or left to be concatenated.
C16_PlanInvalidation ==
  /\ [][(mainPc = "seg cleanup" /\ mainPc' # "seg cleanup"
         /\ PersistedPlanDiffers) =>
          /\ segSkipped' = << >> /\ segStarted' = << >>
          /\ \/ /\ mainPc' = "seg meta"
                /\ wsMeta' = NoMeta
                /\ wsSeg' = EmptyWorkspace
                /\ wsTmp' = {}
             \/ /\ mainPc' = "returned"
                /\ item'[SegJob].status = "Failed"]_vars
  /\ [](OtherPlanFound =>
          /\ segSkipped = << >>
          /\ mainPc \in SegPcs => \A i \in SegIndexes : wsSeg[i].by # "old")

\* The segment length was changed: the workspace was emptied, both
\* segments were encoded again and the job is Processed.
C16_Witness ==
  /\ metaFound = "other segment_seconds"
  /\ segStarted = <<0, 1>>
  /\ segSkipped = << >>
  /\ wsSeg[0].by = "new" /\ wsSeg[1].by = "new"
  /\ mainPc = "seg commit"

HasResult(j) == ResultsFor(j) # {}
CancelledRunReturned == mainPc = "returned" /\ ctxDone
CancellationOutcome(j) ==
  item[j].status = "Failed" /\ item[j].reason = "context canceled"

\* C14 as claimed: after a cancelled run has returned no job's whole-file
\* temp output is on disk, the store has no new record for a job that did
\* not reach the commit step, and in segment mode the workspace is still
\* on disk.  A temp output that an earlier, killed run left stays when
\* this run did not start the job's worker, and always in segment mode.
C14_NoTempAfterCancel ==
  CancelledRunReturned =>
    /\ \A j \in Selected :
         /\ tmpFile[j] = "none"
         /\ item[j].status # "Processed" => HasPriorRecord(DiskState, j)
    /\ (~ BatchMode /\ CancellationOutcome(SegJob)) => wsMeta.kind = "json"

\* C14, amended: after a cancelled run has returned, no temp output this
\* run wrote is on disk (whole-file, segment or merge), and the whole-file
\* temp output of every job whose worker ran is gone; the store, in memory
\* and in the file, holds what it held before for every job that did not
\* reach the commit step; and in segment mode, when the job ended with the
\* cancellation outcome, the workspace is on disk with the plan of this
\* run and every segment skipped or finished before.
C14_CancelledRunLeaves ==
  CancelledRunReturned =>
    /\ \A j \in Selected :
         /\ tmpFile[j] \in {"none", PriorTmp(prior)}
         /\ (BatchMode /\ HasResult(j)) => tmpFile[j] = "none"
         /\ item[j].status # "Processed" =>
              /\ HasPriorRecord(DiskState, j)
              /\ HasPriorRecord(state, j)
    /\ mergeTmp = "none"
    /\ wsTmp = {}
    /\ (~ BatchMode /\ CancellationOutcome(SegJob)) =>
         /\ wsMeta = MarshalMeta(expectedMeta(SegJob,
                       inStat[JobInput(SegJob)], segSeconds, durationSec))
         /\ \A i \in SkippedIdx : wsSeg[i].by = "old"
         /\ \A i \in StartedIdx : i < segIdx => wsSeg[i].by = "new"

\* Segment mode, cancelled while the second segment was being encoded:
\* the first segment and the plan are on disk, the temp files are not.
C14_Witness ==
  /\ CancelledRunReturned
  /\ ~ BatchMode
  /\ CancellationOutcome(SegJob)
  /\ segStarted = <<0, 1>>
  /\ exitKind[SegJob] = "killed"
  /\ wsSeg[0].by = "new"
  /\ wsSeg[1].by = "none"
  /\ wsMeta.kind = "json"
  /\ wsTmp = {}

\* A file appears under the final name of segment i in this step.
SegmentAppears(i) == wsSeg'[i] # wsSeg[i] /\ wsSeg'[i].by # "none"
\* Run has returned for a segment and the job returns in this step.
SegmentFails == mainPc = "seg waited" /\ mainPc' = "returned"

\* C22: in segment mode a file appears under a segment's final name only
\* in the step that renames the segment's temp file after its process
\* exited with status 0 and Run returned nil; when the encode or the
\* rename fails the job returns Failed in that step, the failed segment's
\* temp file is removed, no file appears under its final name, and nothing
\* is encoded, listed or concatenated afterwards.
C22_SegmentCommit ==
  [][/\ \A i \in SegIndexes : SegmentAppears(i) =>
          /\ mainPc = "seg waited" /\ mainPc' = "seg loop"
          /\ i = segIdx /\ segIdx' = i + 1
          /\ exitKind[SegJob] = "ok" /\ err[SegJob] = "nil"
          /\ i \in wsTmp /\ i \notin wsTmp'
          /\ wsSeg'[i].by = "new"
     /\ (mainPc = "seg waited" /\ mainPc' \notin {"seg waited", "seg loop"}) =>
          /\ SegmentFails
          /\ item'[SegJob].status = "Failed"
          /\ results' = <<[job |-> SegJob, status |-> "Failed",
                           reason |-> item'[SegJob].reason]>>
          /\ wsTmp' = {}
          /\ wsSeg' = wsSeg
     /\ (mainPc = "returned" /\ ~ BatchMode) =>
          /\ segStarted' = segStarted
          /\ wsList' = wsList /\ mergeTmp' = mergeTmp
          /\ wsTmp' = wsTmp
          /\ \A i \in SegIndexes : ~ SegmentAppears(i)]_vars

\* The first segment was encoded and renamed, the second one's process
\* failed on its own: the job has returned Failed, the second segment has
\* no file and no temp file, and there is no list and no merged file.
C22_Witness ==
  /\ mainPc = "returned"
  /\ ~ BatchMode /\ ~ ctxDone
  /\ item[SegJob].status = "Failed"
  /\ item[SegJob].reason = "exit status 1"
  /\ segStarted = <<0, 1>>
  /\ wsSeg[0].by = "new" /\ wsSeg[1].by = "none"
  /\ wsTmp = {}
  /\ wsList = NoList /\ mergeTmp = "none"

\* The segment-mode job returns from the concatenation in this step.
ConcatFails ==
  mainPc \in {"seg concat", "seg concat run", "seg concat waited"}
  /\ mainPc' = "returned"

\* C23: in segment mode the job's output path is written only by the
\* rename of the merged temp file after the concatenation process exited
\* with status 0; when the concatenation cannot start, fails or is
\* cancelled, the merged temp file is removed, the output path keeps what
\* it held, the job is Failed and the store, in memory and in the file, is
\* not written; and a segment-mode job that returned Failed has no
\* completion record and the output path it had before the run.
C23_OutputOnlyByRename ==
  /\ [][~ BatchMode =>
         /\ outFile'[SegJob] # outFile[SegJob] =>
              /\ mainPc = "seg concat waited" /\ mainPc' = "seg commit"
              /\ exitKind[SegJob] = "ok" /\ err[SegJob] = "nil"
              /\ mergeTmp = "new"
              /\ outFile'[SegJob] = "new"
              /\ mergeTmp' = "none"
         /\ ConcatFails =>
              /\ mergeTmp' = "none"
              /\ outFile' = outFile
              /\ item'[SegJob].status = "Failed"
              /\ state' = state /\ ckFs' = ckFs]_vars
  /\ []((mainPc = "returned" /\ ~ BatchMode
         /\ item[SegJob].status = "Failed") =>
          /\ outFile[SegJob] = PriorOut(prior)
          /\ mergeTmp = "none"
          /\ HasPriorRecord(state, SegJob)
          /\ HasPriorRecord(DiskState, SegJob)
          /\ ~ HasCompletionRecord(state, SegJob))

\* Both segments were encoded and listed, and the concatenation process
\* was killed by the cancellation: the job has returned Failed, the merged
\* temp file is gone and the output of an earlier run is still in place.
C23_Witness ==
  /\ mainPc = "returned"
  /\ ~ BatchMode /\ ctxDone
  /\ prior = "overwrite"
  /\ item[SegJob].status = "Failed"
  /\ item[SegJob].reason = "context canceled"
  /\ exitKind[SegJob] = "killed"
  /\ wsList.exists
  /\ segStarted # << >>
  /\ \A i \in Planned : wsSeg[i].by = "new"
  /\ mergeTmp = "none"
  /\ outFile[SegJob] = "old"

\* The plan file of the workspace is deleted in this step, and the two
\* places of the segment path that delete the workspace.
PlanDeleted == wsMeta # NoMeta /\ wsMeta' = NoMeta
DeletedForOtherPlan ==
  /\ mainPc = "seg cleanup"
  /\ metaFound' \notin {"missing", "same plan"}
  /\ segStarted = << >>
DeletedAfterCommit ==
  /\ mainPc = "seg commit" /\ mainPc' = "returned"
  /\ outFile[SegJob] = "new"
  /\ item[SegJob].status = "Processed"
  /\ HasCompletionRecord(state, SegJob)
  /\ stateMu = 0
\* The segment-mode job returns Failed in this step.
SegmentJobFails ==
  mainPc \in SegPcs /\ mainPc' = "returned" /\ item'[SegJob].status = "Failed"
\* The returns that come before the plan file is written.
EarlyReasons ==
  {"stat input failed", "cleanup segment workspace failed",
   "create segment workspace failed", "save segment meta failed"}
\* The plan file of this run has been written, and the job has not returned
\* Processed.
PlanWritten ==
  \/ mainPc \in {"seg loop", "seg start", "seg run", "seg waited", "seg list",
                 "seg concat", "seg concat run", "seg concat waited",
                 "seg commit"}
  \/ /\ mainPc = "returned"
     /\ item[SegJob].status = "Failed"
     /\ item[SegJob].reason \notin EarlyReasons

\* C24 as claimed: the workspace is deleted only on the success path, after
\* the output was renamed and the job was marked completed, and every
\* failure or cancellation return of the segment-mode job leaves the
\* workspace and its plan file as they were.  The workspace of another
\* plan, or of a plan file that cannot be read, is deleted at the start,
\* and a failed write of the plan file may leave it unreadable.
C24_DeletedOnlyOnSuccess ==
  [][~ BatchMode =>
       /\ PlanDeleted => DeletedAfterCommit
       /\ (SegmentJobFails /\ wsMeta.kind = "json") =>
            wsMeta' = wsMeta /\ wsSeg' = wsSeg]_vars

\* C24, amended: the workspace is deleted at two places only: at the start
\* of the segment path, before any segment is encoded, when its plan file
\* cannot be read or holds another plan; and on the success path, after the
\* output was renamed into place, the job was marked completed in the
\* store and the save was attempted.  From the moment this run's plan file
\* is written, every failure or cancellation return, and a kill, leaves on
\* disk the plan file of this run and every segment skipped or finished so
\* far.
C24_WorkspaceLifecycle ==
  /\ [][~ BatchMode =>
         (PlanDeleted => DeletedForOtherPlan \/ DeletedAfterCommit)]_vars
  /\ []((~ BatchMode /\ PlanWritten) =>
          /\ wsMeta = MarshalMeta(expectedMeta(SegJob,
                        inStat[JobInput(SegJob)], segSeconds, durationSec))
          /\ \A i \in SkippedIdx : wsSeg[i].by = "old"
          /\ \A i \in StartedIdx : i < segIdx => wsSeg[i].by = "new")

\* The workspace of another plan was deleted at the start; the first
\* segment was encoded and the second one's process failed: the job has
\* returned Failed and this run's plan and first segment are on disk.
C24_Witness ==
  /\ mainPc = "returned"
  /\ ~ BatchMode
  /\ metaFound = "other segment_seconds"
  /\ item[SegJob].status = "Failed"
  /\ item[SegJob].reason = "exit status 1"
  /\ segStarted = <<0, 1>>
  /\ wsMeta.kind = "json"
  /\ wsSeg[0].by = "new"

\* The candidates of a scan: the inputs, and files named as outputs.
Candidates == JobInputs \cup {JobOutput(j) : j \in Jobs}
\* A step of the scan that records an entry for a candidate.
EntryRecorded == scan1' # scan1 \/ scan2' # scan2

\* C25: discovery never aborts on a condition of one file.  A candidate is
\* recorded as Ignored when its name marks it as a compressed output, when
\* the store reports it fresh, or when its output exists and the user
\* declines to overwrite; otherwise its duration is probed, a probe failure
\* records a Failed entry and a success a job.  Every such step appends one
\* entry and goes on to the next candidate or ends the scan; the steps
\* that make main exit record no entry.
C25_DiscoveryNeverAborts ==
  /\ [](mainPc \in {"walk", "walk2"} =>
        \A path \in Candidates, answer \in BOOLEAN, probeOk \in BOOLEAN :
          LET r == addFile(state, path, inStat, OutputsPresent, answer,
                           probeOk)
              outputFile == getOutputPath(CfgOutputPath, path)
              named == IsCompressedName(path.name)
              fresh == /\ ~ named
                       /\ isCompletedAndUnchanged(state, path, outputFile,
                                                  inStat, OutputsPresent)
              declined == /\ ~ named /\ ~ fresh
                          /\ outputFile \in OutputsPresent /\ ~ answer
          IN /\ r.status \in {"Ignored", "Failed", "Job"}
             /\ r.status = "Ignored" <=> (named \/ fresh \/ declined)
             /\ r.status = "Failed" <=>
                  (~ named /\ ~ fresh /\ ~ declined /\ ~ probeOk))
  /\ [][/\ EntryRecorded =>
            /\ mainPc \in {"walk", "walk2"}
            /\ mainPc' \in {"walk", "walk2", "scanned", "rescanned"}
            /\ Len(scan1') + Len(scan2') = Len(scan1) + Len(scan2) + 1
            /\ jobs' # jobs <=>
                 (FirstRun /\ scan1'[Len(scan1')].status = "Job")
            /\ jobs' # jobs => jobs' = Append(jobs, Len(scan1'))
        /\ (Fatal' /\ ~ Fatal) => ~ EntryRecorded]_vars

\* The probe of the first file failed and the scan went on: the second
\* file is a job, the first is a Failed entry and no job.
C25_Witness ==
  /\ mainPc = "scanned"
  /\ Len(scan1) = 2
  /\ scan1[1] = [status |-> "Failed", reason |-> "Read info failed"]
  /\ scan1[2].status = "Job"
  /\ jobs = <<2>>

\* The save of job j fails in this step; the checkpoint file is replaced
\* in this step.
SaveFails(j) == saveErr'[j] /\ ~ saveErr[j]
CheckpointReplaced == ckFs'["path"] # ckFs["path"]

\* C26: a failed save of the checkpoint, after a job's output was
\* finalized, does not abort the run and does not change the job's
\* outcome.  The job's item and Result are Processed and its output is in
\* place; the in-memory store keeps the record; the step of the failure
\* releases stateMu and changes neither the run's control state nor any
\* other job, so the other jobs go on; and every later successful save
\* writes the whole in-memory store, this record included, to the file.
C26_SaveFailureKeepsOutcome ==
  /\ [](InRun => \A j \in Selected : saveErr[j] =>
          /\ item[j].status = "Processed"
          /\ outFile[j] = "new"
          /\ HasCompletionRecord(state, j)
          /\ \A i \in ResultsFor(j) : results[i].status = "Processed")
  /\ [][/\ \A j \in Jobs : SaveFails(j) =>
              /\ stateMu = j /\ stateMu' = 0
              /\ mainPc' = mainPc /\ ctxDone' = ctxDone
              /\ crashed' = crashed
              /\ next' = next /\ sem' = sem /\ wg' = wg
              /\ item' = item /\ state' = state /\ outFile' = outFile
              /\ results' = results
              /\ \A k \in Jobs \ {j} : wpc'[k] = wpc[k]
        /\ (InRun /\ CheckpointReplaced) => DiskState' = state']_vars

\* The save of the first job failed and the run went on: the second job's
\* save succeeded and wrote both records, and both Results are Processed.
C26_Witness ==
  /\ mainPc = "returned"
  /\ ~ ctxDone
  /\ saveErr[1] /\ ~ saveErr[2]
  /\ Len(results) = 2
  /\ \A i \in DOMAIN results : results[i].status = "Processed"
  /\ HasCompletionRecord(state, 1)
  /\ RecordOnDisk(1) /\ RecordOnDisk(2)

\* n is ceil(dur / seconds), and 1 when that is less: the least n >= 1
\* with n * seconds >= dur.
IsSegmentCount(n, dur, seconds) ==
  /\ n >= 1
  /\ n * seconds >= dur
  /\ n > 1 => (n - 1) * seconds < dur
\* Durations and configured lengths around the default length as well.
PlanDurations ==
  0..MaxDur \cup {DefaultSegmentSeconds - 1, DefaultSegmentSeconds,
                  DefaultSegmentSeconds + 1, 2 * DefaultSegmentSeconds,
                  2 * DefaultSegmentSeconds + 1}
PlanSeconds == -1..MaxSegSeconds \cup {DefaultSegmentSeconds}

\* C27: the plan's segment count is ceil(duration / segment length), and
\* at least 1, the segment length being 600 when the configured one is 0
\* or less: for the plan the segment path computes for the job, and for
\* every duration and configured length within the bounds and around 600,
\* exact multiples included.
C27_SegmentCount ==
  /\ (mainPc \in SegPcs \ {"segment"}) =>
        /\ segPlan.segmentSeconds =
             (IF segSeconds <= 0 THEN DefaultSegmentSeconds ELSE segSeconds)
        /\ IsSegmentCount(segPlan.totalSegments, durationSec,
                          segPlan.segmentSeconds)
  /\ mainPc = "seg cleanup" =>
        \A d \in PlanDurations, c \in PlanSeconds :
          LET seconds == segmentSecondsOf(c)
          IN /\ seconds = (IF c <= 0 THEN DefaultSegmentSeconds ELSE c)
             /\ IsSegmentCount(totalSegmentsOf(d, seconds), d, seconds)

\* A duration that is twice the segment length: two segments, not three.
C27_Witness ==
  /\ mainPc = "seg loop"
  /\ segSeconds = 1 /\ durationSec = 2
  /\ segPlan.segmentSeconds = 1
  /\ segPlan.totalSegments = 2

(* ======================================================================= *)
(* SpecMutex: a run over a directory nothing was left in, with the lock    *)
(* of mu and the append to results as steps of their own.                  *)
(* ======================================================================= *)
MutexSteps ==
  \/ StepsButAppend
  \/ \E j \in Jobs : WorkerAppendLock(j)
  \/ \E j \in Jobs : WorkerAppend(j)

MutexNext == MutexSteps \/ Crash

SpecMutex == CancelInit /\ [][MutexNext]_vars

\* Worker j is between the start of ffmpeg.Run and its return.
InRunCall(j) == wpc[j] \in {"launch", "run", "waited", "exited"}
\* The segment path is between the start of a process and Run's return.
SegInRunCall ==
  mainPc \in {"seg start", "seg run", "seg waited", "seg concat",
              "seg concat run", "seg concat waited"}

\* C28: no worker holds stateMu or mu while its external process runs.
\* The holder of stateMu is between Lock and Unlock, in the mark and the
\* save, after its process exited with status 0; the holder of mu is at
\* the append, after its Run call returned; neither holds the other mutex;
\* a worker past Unlock holds nothing; and a worker inside its Run call
\* holds neither, so a worker that waits for a mutex waits for a holder
\* that is in its critical section only.
C28_NoMutexWhileProcessRuns ==
  /\ \A j \in Jobs :
       /\ stateMu = j <=> wpc[j] \in {"write", "rename"}
       /\ mu = j <=> wpc[j] = "appending"
       /\ stateMu = j => exitKind[j] = "ok" /\ j \notin RunningProcesses
       /\ mu = j => exitKind[j] # "none" \/ item[j].status = "Failed"
       /\ mu = j => j \notin RunningProcesses
       /\ InRunCall(j) => stateMu # j /\ mu # j
  /\ SegInRunCall => stateMu = 0 /\ mu = 0

\* The first job's process is running while the second worker, which has
\* committed its job, holds mu for its append.
C28_Witness ==
  /\ wpc[1] = "run"
  /\ 1 \in RunningProcesses
  /\ mu = 2
  /\ wpc[2] = "appending"
  /\ item[2].status = "Processed"
  /\ stateMu = 0

(* ======================================================================= *)
(* SpecPaths: the walk of ScanJobs over a directory tree, with and         *)
(* without an output directory, in a directory no earlier run left         *)
(* anything in.                                                            *)
(* ======================================================================= *)
\* cfg.OutputPath: none, or a directory.
OutputPaths == {"", "out"}

\* The video files of the tree, in the order filepath.Walk hands them to
\* the callback: the entries of a directory in lexical order, the
\* subdirectory s after the files of v.
WalkOrder ==
  <<Path("v", "a", ".mkv"), Path("v", "a", ".mp4"), Path("v", "b", ".mp4"),
    Path("v/s", "a", ".mkv"), Path("v/s", "a", ".mp4"),
    Path("v/s", "b", ".mp4")>>

\* Job{InputFile: path, OutputFile: outputFile, TempFile: outputFile +
\* ".vcpart"}
JobOf(path) ==
  [InputFile |-> path,
   OutputFile |-> getOutputPath(outDir, path),
   TempFile |-> TempFileOf(getOutputPath(outDir, path))]

PathsInit ==
  /\ ProcIdle
  /\ outDir \in OutputPaths
  /\ state = EmptyState
  /\ inStat = [p \in FreshInputs |-> NoFile]
  /\ outPresent = {}
  /\ query = NoQuery
  /\ ckFs = [f \in {"path", "tmp"} |-> Missing]
  /\ savePc = "idle"
  /\ loaded = NotLoaded
  /\ crashed = FALSE
  /\ bar = 0
  /\ lastTimeUs = << >>
  /\ runPc = << >>
  /\ stdout = << >>

\* The Walk callback on the next file: addFile, with no record in the
\* store and no output on disk; probeOk: GetVideoDuration succeeded.
Visit(probeOk) ==
  /\ next <= Len(WalkOrder)
  /\ LET path == WalkOrder[next]
         res == addFile(EmptyState, path, inStat, {}, TRUE, probeOk)
     IN /\ scan1' = Append(scan1, res)
        /\ jobs' = IF res.status = "Job" THEN Append(jobs, JobOf(path))
                   ELSE jobs
  /\ next' = next + 1
  /\ UNCHANGED <<state, freshVars, ckptVars, runVars, workers, prior, ctxDone,
                 mainPc, sem, wg, wpc, snap, err, item, saveErr, tmpFile,
                 outFile, stateMu, mu, results, scan2, isDir, disableSeg,
                 saveData, exitKind, segVars, outDir>>

PathsNext == \E probeOk \in BOOLEAN : Visit(probeOk)

SpecPaths == PathsInit /\ [][PathsNext]_vars

\* C29 as claimed: no two jobs selected by one scan share an output path
\* or a temp path, with or without an output directory.  With an output
\* directory, two files of the same name and extension in different
\* directories of the tree get the same output path and the same temp
\* path.
C29_DistinctPaths ==
  \A m \in DOMAIN jobs, n \in DOMAIN jobs :
    m # n =>
      /\ jobs[m].OutputFile # jobs[n].OutputFile
      /\ jobs[m].TempFile # jobs[n].TempFile

(* ======================================================================= *)
(* SpecLive: a run over a directory nothing was left in, which is not      *)
(* killed, under the scheduling Go and the claim's premise give: a         *)
(* goroutine that can take a step takes one, and a process that was        *)
(* started exits.  The cancellation signal may come or not.                *)
(* ======================================================================= *)
Progress == ProgramSteps \/ \E j \in Jobs : WorkerFinish(j)

SpecLive == CancelInit /\ [][Steps]_vars /\ WF_vars(Progress)

\* Process is on its batch path, at the head of the for loop.
BatchStarted == mainPc = "loop" /\ next = 1

\* C30: on the batch path Process returns for every job list when
\* cfg.Workers >= 1, cancelled or not, as every started process exits; and
\* with cfg.Workers = 0 and a job, no job is ever admitted, there is no
\* Result, and Process has returned only when ctx was cancelled.
C30_BatchTermination ==
  /\ (BatchStarted /\ workers >= 1) ~> (mainPc = "returned")
  /\ []((workers = 0 /\ Len(jobs) >= 1
         /\ mainPc \in BatchPcs \cup {"returned"}) =>
          /\ \A j \in Jobs : wpc[j] = "none"
          /\ results = << >>
          /\ mainPc = "returned" => ctxDone)

\* Two jobs through one slot, never cancelled: Process has returned with
\* both Results.
C30_Witness ==
  /\ mainPc = "returned"
  /\ ~ ctxDone
  /\ BatchMode
  /\ workers = 1
  /\ Len(jobs) = 2
  /\ Len(results) = 2

(* ======================================================================= *)
(* SpecTouch: a run with one worker slot over inputs nothing was left     *)
(* for, in which an input file is rewritten once while its ffmpeg process  *)
(* runs: with another size, with a modification time in another second,   *)
(* or with one that differs below the second only.  The next run's        *)
(* ScanJobs then looks at the files as they are.                           *)
(* ======================================================================= *)
TouchInfos ==
  {[JobInfo EXCEPT !.size = 1],
   [JobInfo EXCEPT !.mtime.sec = 0],
   [JobInfo EXCEPT !.mtime.nsec = 0]}

\* ffmpeg is reading job j's input: the worker's process, or a segment's.
Encoding(j) ==
  \/ mainPc \in BatchPcs /\ wpc[j] = "run"
  \/ mainPc = "seg run" /\ j = SegJob

\* Something outside the program rewrites job j's input file.
Touch(j, info) ==
  /\ ~ crashed
  /\ Encoding(j)
  /\ inStat[JobInput(j)] = JobInfo
  /\ inStat' = [inStat EXCEPT ![JobInput(j)] = info]
  /\ UNCHANGED <<state, outPresent, query, ckptVars, runVars, procVars>>

TouchInit == Init /\ prior = "clean" /\ workers = 1

TouchNext == Next \/ \E j \in Jobs, info \in TouchInfos : Touch(j, info)

SpecTouch == TouchInit /\ [][TouchNext]_vars

\* The input of job j is not the file the run found, and: os.Stat gives
\* another size or another ModTime().Unix() for it.
Touched(j) == inStat[JobInput(j)] # JobInfo
FingerprintChanged(j) ==
  \/ inStat[JobInput(j)].size # JobInfo.size
  \/ Unix(inStat[JobInput(j)].mtime) # Unix(JobInfo.mtime)

\* C31, as stated: an input modified while it was encoded is not ignored
\* as completed by the next scan.
C31_ModifiedInputNotFresh ==
  mainPc = "rescanned" =>
    \A j \in 1..Len(scan2) :
      (Touched(j) /\ item[j].status = "Processed") =>
        scan2[j] # IgnoredAsCompleted

\* C31, amended: the record of a job, in memory and in the checkpoint file,
\* is never anything but the size and ModTime().Unix() the input had before
\* the job's process started (batch and segment path alike), a committed
\* job has that record, and the next scan does not ignore as completed an
\* input whose size or ModTime().Unix() differs from it by then.
C31_FingerprintIsSnapshot ==
  /\ \A j \in Jobs :
       /\ RecordOf(state, JobInput(j)) \subseteq {CompletionRecord(j)}
       /\ RecordOf(DiskState, JobInput(j)) \subseteq {CompletionRecord(j)}
       /\ Committed(j) => RecordOf(state, JobInput(j)) = {CompletionRecord(j)}
  /\ mainPc = "rescanned" =>
       \A j \in 1..Len(scan2) :
         FingerprintChanged(j) => scan2[j] # IgnoredAsCompleted

\* Two jobs were processed and checkpointed; the first one's input was
\* rewritten with another size while ffmpeg read it, the second one's was
\* not: the next scan selects the first again and ignores the second.
C31_Witness ==
  /\ mainPc = "rescanned"
  /\ AllCheckpointed
  /\ Len(jobs) = 2
  /\ inStat[JobInput(1)].size # JobInfo.size
  /\ ~ Touched(2)
  /\ RecordOf(DiskState, JobInput(1)) = {CompletionRecord(1)}
  /\ scan2[1].status = "Job"
  /\ scan2[2] = IgnoredAsCompleted

(* ======================================================================= *)
(* SpecWs: runs on one file in segment mode, one after the other, over     *)
(* the workspace the run before left: it returned, or it was killed at     *)
(* any step.  Between two runs the segment length may be configured anew   *)
(* and the input file may be rewritten.  Nothing is in the workspace when  *)
(* the first run starts.                                                   *)
(* ======================================================================= *)
\* expectedMeta of the run, from the inputInfo of its os.Stat.
RunPlan == expectedMeta(SegJob, InputInfo(SegJob), segSeconds, durationSec)

\* The program is started again on the same file, with --segment-seconds
\* cfgSeconds and the input file as info says: ScanJobs loads the
\* checkpoint and makes a job of the file (the user answers y when the
\* output is there, ffprobe reports the same duration), and Process takes
\* the segment path.  The files are as the run before left them; a segment
\* that run encoded is from now on one an earlier run left, made under
\* that run's plan.
Rerun(cfgSeconds, info) ==
  /\ runNo < MaxRuns
  /\ runNo' = runNo + 1
  /\ crashed \/ mainPc = "returned"
  /\ shouldUseSegmentResume(disableSeg, jobs)
  /\ ~ isDir
  /\ LET res == loadResumeState(ckFs["path"])
         stat == [inStat EXCEPT ![JobInput(SegJob)] = info]
     IN /\ ~ res.err
        /\ addFile(res.state, JobInput(SegJob), stat, OutputsPresent,
                   TRUE, TRUE).status = "Job"
        /\ state' = res.state
        /\ inStat' = stat
  /\ segSeconds' = cfgSeconds
  /\ madeBy' = [i \in SegIndexes |->
                  IF wsSeg[i].by = "new" THEN {RunPlan}
                  ELSE IF wsSeg[i].by = "old" THEN madeBy[i]
                  ELSE {}]
  /\ wsSeg' = [i \in SegIndexes |->
                 IF wsSeg[i].by = "new" THEN OldSeg(wsSeg[i].dur)
                 ELSE wsSeg[i]]
  /\ crashed' = FALSE
  /\ ctxDone' = FALSE
  /\ mainPc' = "segment"
  /\ wpc' = [j \in Jobs |-> "none"]
  /\ snap' = [j \in Jobs |-> NoSnap]
  /\ err' = [j \in Jobs |-> "nil"]
  /\ exitKind' = [j \in Jobs |-> "none"]
  /\ item' = [j \in Jobs |-> NoItem]
  /\ saveErr' = [j \in Jobs |-> FALSE]
  /\ saveData' = [j \in Jobs |-> Marshal(EmptyState)]
  /\ stateMu' = 0
  /\ results' = << >>
  /\ bar' = 0
  /\ segPlan' = NoPlan
  /\ segIdx' = 0
  /\ segLast' = 0
  /\ segLines' = 0
  /\ metaFound' = "unread"
  /\ segStarted' = << >>
  /\ segSkipped' = << >>
  /\ UNCHANGED <<ckFs, workers, prior, next, sem, wg, tmpFile, outFile, mu,
                 scan2, isDir, disableSeg, scan1, jobs, durationSec, wsMeta,
                 wsTmp, wsList, mergeTmp, outPresent, query, savePc, loaded,
                 lastTimeUs, runPc, stdout, outDir>>

WsInit ==
  /\ Init
  /\ prior = "segments"
  /\ wsMeta = NoMeta
  /\ wsSeg = EmptyWorkspace

\* The steps of a run of the program on one file in segment mode.
SegNext ==
  \/ \E statOk \in BOOLEAN : ScanBegin(statOk)
  \/ \E answer \in BOOLEAN, probeOk \in BOOLEAN : ScanFile(answer, probeOk)
  \/ MainStart
  \/ \E ok \in BOOLEAN : SegStat(ok)
  \/ \E removed \in RemoveOutcomes : SegCleanup(removed)
  \/ \E outcome \in MetaOutcomes : SegSaveMeta(outcome)
  \/ SegLoop
  \/ \E ok \in BOOLEAN : SegProcStart(ok)
  \/ \E line \in Lines : SegRunLine(line)
  \/ \E kind \in ExitKinds : SegProcExit(kind)
  \/ \E renameOk \in BOOLEAN : SegRunReturn(renameOk)
  \/ \E outcome \in ListOutcomes : SegConcatList(outcome)
  \/ \E ok \in BOOLEAN : SegConcatStart(ok)
  \/ \E kind \in ExitKinds : SegConcatExit(kind)
  \/ \E renameOk \in BOOLEAN : SegConcatReturn(renameOk)
  \/ \E j \in Jobs : WorkerLock(j)
  \/ \E j \in Jobs, ok \in BOOLEAN : WorkerSaveWrite(j, ok)
  \/ \E j \in Jobs, ok \in BOOLEAN : WorkerSaveRename(j, ok)
  \/ \E removed \in RemoveOutcomes : SegFinish(removed)
  \/ Cancel
  \/ Crash

\* One file in segment mode, with any plan file and any segment files an
\* earlier run may have left.
SegInit == Init /\ prior = "segments" /\ workers = 1

SpecSeg == SegInit /\ [][SegNext]_vars

WsNext ==
  \/ SegNext
  \/ \E cfgSeconds \in 0..MaxSegSeconds, info \in {JobInfo} \cup TouchInfos :
       Rerun(cfgSeconds, info)

SpecWs == WsInit /\ [][WsNext]_vars

\* Plan m names the input path, output path, input size, input
\* modification time, segment length and segment count of plan e.
SamePlan(m, e) ==
  /\ m.InputFile = e.InputFile
  /\ m.OutputFile = e.OutputFile
  /\ m.InputSize = e.InputSize
  /\ m.InputModUnix = e.InputModUnix
  /\ m.SegmentSeconds = e.SegmentSeconds
  /\ m.TotalSegments = e.TotalSegments

\* C32: every segment file the run has skipped was encoded by a run whose
\* plan had the input path, output path, input fingerprint, segment length
\* and segment count of this run's plan.
C32_SkippedSegmentOfSamePlan ==
  mainPc \in SegPcs \cup {"returned"} =>
    \A n \in DOMAIN segSkipped :
      /\ madeBy[segSkipped[n].idx] # {}
      /\ \A m \in madeBy[segSkipped[n].idx] : SamePlan(m, RunPlan)

(* ======================================================================= *)
(* SpecTile: the plan and the loop of the segment path for one job, as     *)
(* far as the start and the length of each segment go: no segment is       *)
(* found finished, every encode succeeds.  Durations and lengths are       *)
(* counted in ticks of 1/TicksPerSec second, so that a duration need not   *)
(* be a whole number of seconds; cfg.SegmentSeconds is in seconds.         *)
(* ======================================================================= *)
tileFixed == <<state, freshVars, ckptVars, runVars, workers, prior, ctxDone,
               next, sem, wg, wpc, snap, err, item, saveErr, tmpFile, outFile,
               stateMu, mu, results, scan2, isDir, disableSeg, scan1, jobs,
               saveData, exitKind, segSeconds, durationSec, wsMeta, wsSeg,
               wsTmp, wsList, mergeTmp, segLast, segLines, metaFound,
               segSkipped, madeBy, runNo, outDir>>

TileInit ==
  /\ segSeconds \in -1..MaxTileSeconds
  /\ durationSec \in 1..(MaxTileDur * TicksPerSec)
  /\ mainPc = "segment"
  /\ jobs = <<1>>
  /\ workers = 1
  /\ prior = "clean"
  /\ isDir = FALSE
  /\ disableSeg = FALSE
  /\ ProcOthersInit
  /\ wsMeta = NoMeta
  /\ wsSeg = EmptyWorkspace
  /\ wsTmp = {}
  /\ wsList = NoList
  /\ mergeTmp = "none"
  /\ segPlan = NoPlan
  /\ segIdx = 0
  /\ segLast = 0
  /\ segLines = 0
  /\ metaFound = "unread"
  /\ segStarted = << >>
  /\ segSkipped = << >>
  /\ madeBy = [i \in SegIndexes |-> {}]
  /\ runNo = 1
  /\ ctxDone = FALSE
  /\ crashed = FALSE
  /\ scan1 = <<[status |-> "Job", reason |-> ""]>>
  /\ next = 1
  /\ sem = 0
  /\ wg = 0
  /\ wpc = [j \in Jobs |-> "none"]
  /\ snap = [j \in Jobs |-> NoSnap]
  /\ err = [j \in Jobs |-> "nil"]
  /\ exitKind = [j \in Jobs |-> "none"]
  /\ item = [j \in Jobs |-> NoItem]
  /\ saveErr = [j \in Jobs |-> FALSE]
  /\ saveData = [j \in Jobs |-> Marshal(EmptyState)]
  /\ tmpFile = [j \in Jobs |-> "none"]
  /\ outFile = [j \in Jobs |-> "none"]
  /\ inStat = [p \in JobInputs |-> JobInfo]
  /\ state = EmptyState
  /\ ckFs = [f \in {"path", "tmp"} |-> Missing]
  /\ stateMu = 0
  /\ mu = 0
  /\ results = << >>
  /\ scan2 = << >>

\* segmentSeconds and totalSegments, the length in ticks.
TilePlan ==
  /\ mainPc = "segment"
  /\ segPlan' =
       [segmentSeconds |-> segmentSecondsOf(segSeconds) * TicksPerSec,
        totalSegments |->
          totalSegmentsOf(durationSec,
                          segmentSecondsOf(segSeconds) * TicksPerSec)]
  /\ mainPc' = "seg loop"
  /\ UNCHANGED <<segIdx, segStarted, tileFixed>>

\* for idx := 0; idx < totalSegments; idx++: a segment whose length is not
\* positive is passed over; the others are encoded from startSec on, for
\* durationSec.
TileStep ==
  /\ mainPc = "seg loop"
  /\ IF segIdx < segPlan.totalSegments
       THEN /\ segStarted' =
                 IF segmentDurationAt(segIdx, durationSec,
                                      segPlan.segmentSeconds) <= 0
                   THEN segStarted
                   ELSE Append(segStarted, segIdx)
            /\ segIdx' = segIdx + 1
            /\ UNCHANGED mainPc
       ELSE /\ mainPc' = "seg list"
            /\ UNCHANGED <<segIdx, segStarted>>
  /\ UNCHANGED <<segPlan, tileFixed>>

TileNext == TilePlan \/ TileStep

SpecTile == TileInit /\ [][TileNext]_vars

\* The length of segment i of the plan, and the sum of the lengths of the
\* segments before segment n.
SegLen(i) == segmentDurationAt(i, durationSec, segPlan.segmentSeconds)
RECURSIVE SumLen(_)
SumLen(n) == IF n <= 0 THEN 0 ELSE SumLen(n - 1) + SegLen(n - 1)
Min(a, b) == IF a < b THEN a ELSE b

\* C33: the segments tile the input.  For a duration D > 0 and the segment
\* length S of the plan there are ceil(D / S) segments; segment idx starts
\* at idx * S, where the one before it ended, and has the length
\* min(S, D - idx * S), which is more than 0 and at most S; the lengths sum
\* to D; and every segment is encoded, none passed over.
C33_SegmentsTile ==
  mainPc \in {"seg loop", "seg list"} =>
    LET S == segPlan.segmentSeconds
        n == segPlan.totalSegments
        D == durationSec
    IN /\ IsSegmentCount(n, D, S)
       /\ \A idx \in 0..(n - 1) :
            /\ startSecAt(idx, S) = idx * S
            /\ startSecAt(idx, S) = SumLen(idx)
            /\ SegLen(idx) = Min(S, D - idx * S)
            /\ 0 < SegLen(idx) /\ SegLen(idx) <= S
       /\ SumLen(n) = D
       /\ segStarted = UpTo(segIdx)

\* Two and a half seconds in segments of one second: the loop is over and
\* three segments were encoded, the last of half a second.
C33_Witness ==
  /\ mainPc = "seg list"
  /\ segSeconds = 1
  /\ durationSec = 2 * TicksPerSec + 1
  /\ segPlan.totalSegments = 3
  /\ segStarted = <<0, 1, 2>>
  /\ SegLen(2) = 1

(* ------------------------------------- claims, Spec: a job with no length *)
SegmentMode == segPlan # NoPlan
NoLength == durationSec <= 0
PastList == {"seg concat", "seg concat run", "seg concat waited",
             "seg commit"}
SegEnded == SegmentMode /\ ~ crashed /\ mainPc = "returned" /\ results # << >>
SegEndedAs(status) == SegEnded /\ results[1].status = status
NothingWritten(j) ==
  /\ outFile[j] = "none"
  /\ ~ HasCompletionRecord(state, j)
  /\ ~ RecordOnDisk(j)

\* Past the concat list, before the workspace is removed, the list names
\* every index of the plan and the segment file of every index is there.
ListComplete ==
  SegmentMode /\ mainPc \in PastList =>
    /\ wsList.exists
    /\ wsList.files = UpTo(segPlan.totalSegments)
    /\ \A idx \in 0..(segPlan.totalSegments - 1) : wsSeg[idx].by # "none"

\* An encode is started only for an index whose computed length is positive.
OnlyLengthsEncoded ==
  SegmentMode =>
    \A n \in DOMAIN segStarted :
      segmentDurationAt(segStarted[n], durationSec,
                        segPlan.segmentSeconds) > 0

\* The reasons a job can fail with before its concat list is written.
ReasonsBeforeList ==
  {"stat input failed", "cleanup segment workspace failed",
   "create segment workspace failed", "save segment meta failed",
   "context canceled", "create concat list failed"}

====
